---- MODULE Spec2Model ----
(***************************************************************************)
(* Model of the client-side batch-extraction core of web_surveyscriber:    *)
(* the chunked uploader (uploadImages, uploadImagesChunked) and the job    *)
(* status poller (getJobStatus, pollJobStatus) of frontend/src/api/        *)
(* backend.js.                                                             *)
(*                                                                         *)
(* An async function is modelled by a program counter that rests at its    *)
(* await points; the code between two awaits is one atomic step.  The      *)
(* server and the network are the environment: every response is chosen    *)
(* nondeterministically when the awaited promise settles.                  *)
(***************************************************************************)
EXTENDS Integers, Sequences, FiniteSets, TLC

\* ------------------------------------------------------------------ bounds
\* Largest file list handed to uploadImagesChunked (250 = three chunks).
MaxFiles == 250
\* Largest number of getJobStatus requests one pollJobStatus may issue.
MaxPolls == 4
MaxImages == 5001
MaxLaterRuns == 1

\* --------------------------------------------------------- program constants
\* const CHUNK_SIZE = 100;
CHUNK_SIZE == 100
\* intervalMs = 2000 (default parameter of pollJobStatus)
DefaultIntervalMs == 2000

\* ------------------------------------------------------------ JS values
\* null / undefined / an absent FormData field
Null == "null"
\* Batch identifiers the server may hand out (opaque, non-empty tokens).
BatchIds == {"batchA", "batchB"}
\* How a request (fetch, then response.json()) can end:
\*   ok_unparsed   2xx response received, response.json() still pending
\*   ok            2xx response whose body parses
\*   http_error    response received, response.ok is false
\*   network_error fetch() itself rejects (transport failure)
\*   bad_json      2xx response whose body does not parse

\* No error / no value (placeholders in result records).
NoError == [name |-> Null, text |-> Null, arg |-> 0]

VARIABLES
    \* ---- uploadImagesChunked(files, onProgress) ----
    files,          \* the argument `files`: a sequence of distinct file ids
    upOnProgress,   \* TRUE iff the caller passed an onProgress callback
    upPc,           \* where the call stands
    i,              \* loop variable of the chunk loop (a 0-based offset)
    batchId,        \* let batchId (Null until the first response)
    uploadedCount,  \* let uploadedCount
    upCalls,        \* every POST /upload/images issued, in order (FormData)
    upInflight,     \* indexes in upCalls of requests with no response yet
    upResponses,    \* what came back for each settled request, in order
    upProgress,     \* the arguments of every onProgress invocation, in order
    upResult,       \* how the call ended: none / return / throw
    \* ---- pollJobStatus(jobId, onProgress, intervalMs) ----
    pollOnProgress, \* TRUE iff the caller passed an onProgress callback
    pollPc,         \* idle / fetching / timer / settled
    pollRequests,   \* number of getJobStatus requests issued so far
    pollInflight,   \* number of getJobStatus requests with no response yet
    pollTimers,     \* delays of the pending setTimeout(poll, ..) timers
    pollFetched,    \* every value getJobStatus returned, in order
    pollProgress,   \* the argument of every onProgress invocation, in order
    pollPromise,    \* the promise: pending / resolved / rejected, and value
    pollJobId,      \* the argument jobId
    pollHttp,       \* every HTTP response the status requests received, in order
    pollEvents,     \* what poll() did, in program order: request / progress /
                    \* resolve / reject / timer
    \* ---- the component's React state (part_000, 172-197) ----
    filesState,     \* files: the selected images
    schemaFields,   \* schemaFields: the field names as typed
    processingMode, \* processingMode: "auto" / "sync" / "async"
    outputFolder,   \* TRUE iff an auto-save folder is selected
    loading,        \* loading
    uiStatus,       \* status: the status line
    uiResult,       \* result
    uiError,        \* error
    progress,       \* progress
    abortController,\* abortController: Null or the running run's controller
    \* ---- one run of handleExtract ----
    runPc,          \* where the run stands (the await it rests at)
    runEnd,         \* how the run ended
    useAsync,       \* const useAsync
    aborted,        \* controller.signal.aborted of the run's AbortController
    uploadRes,      \* const uploadRes
    jobRes,         \* jobRes.job_id
    extractCalls,   \* every POST /extract/batch[/async] issued, in order
    extractInflight,\* extraction requests with no response yet
    extractResponses,\* how each settled extraction request ended, in order
    saveCalls,      \* number of auto-save downloads started
    \* ---- the progress callbacks of handleExtract, exercised on their own ----
    cbUploaded,     \* `uploaded` of the latest upload callback
    cbTotal,        \* `total` of the upload callbacks
    cbPercentage,   \* progressData.percentage of the latest poll callback
    \* ---- a later press of the Extract button ----
    laterRuns,      \* runs of handleExtract started after the one followed
    earlierRun,     \* TRUE while a run started before the one followed, and
                    \* terminated by the user, still awaits a request
    \* ---- what a render of App computes from files.length ----
    filesLength,    \* files.length at the latest render
    warningLevel,   \* const warningLevel = getWarningLevel(files.length)
    asyncChoice,    \* the latest value returned by shouldUseAsync
    \* ---- runFirstTimeSetup(onProgress, onStatus) (setup.js) ----
    setupPc,        \* where the call stands
    preExtractedPath,\* index in preExtractedPaths of the folder found, 0 for null
    zipPath,        \* index in possibleZipPaths of the zip found, 0 for null
    installed,      \* the i of the package loop of downloadAndInstallPython
    currentProgress,\* let currentProgress of the progress simulation
    progressInterval,\* TRUE while the setInterval timer is installed
    setupProgress,  \* the argument of the latest onProgress call
    setupStatus,    \* the argument of the latest onStatus call
    markerWritten,  \* TRUE once the setup-complete marker is written
    setupReturn     \* how the call ended and what it returned

upVars == <<files, upOnProgress, upPc, i, batchId, uploadedCount, upCalls,
            upInflight, upResponses, upProgress, upResult>>
pollVars == <<pollOnProgress, pollPc, pollRequests, pollInflight, pollTimers,
              pollFetched, pollProgress, pollPromise, pollJobId, pollHttp,
              pollEvents>>
uiVars == <<filesState, schemaFields, processingMode, outputFolder, loading, uiStatus,
            uiResult, uiError, progress, abortController>>
runVars == <<runPc, runEnd, useAsync, aborted, uploadRes, jobRes, extractCalls,
             extractInflight, extractResponses, saveCalls>>
\* The state a progress callback of handleExtract does not touch.
uiQuiet == <<filesState, schemaFields, processingMode, outputFolder, loading, uiResult,
             uiError, abortController>>
cbVars == <<cbUploaded, cbTotal, cbPercentage>>
fnVars == <<filesLength, warningLevel, asyncChoice>>
setupVars == <<setupPc, preExtractedPath, zipPath, installed, currentProgress,
               progressInterval, setupProgress, setupStatus, markerWritten, setupReturn>>
\* The state no step of the upload / poll / extraction machines touches.
otherRuns == <<laterRuns, earlierRun>>
otherVars == <<otherRuns, fnVars, setupVars>>
vars == <<upVars, pollVars, uiVars, runVars, cbVars, otherVars>>

\* ------------------------------------------------- values of the React state
\* progress: null, or {processed, total, percentage, stage}.  A percentage
\* of -1 stands for undefined / NaN.
NoProgress == [shown |-> FALSE, processed |-> 0, total |-> 0, percentage |-> 0,
               stage |-> "none"]
Progress(processed, total, percentage, stage) ==
    [shown |-> TRUE, processed |-> processed, total |-> total,
     percentage |-> percentage, stage |-> stage]
\* status: a text with up to two numbers filled in.
Status(text, a, b) == [text |-> text, a |-> a, b |-> b]
\* error: null, or the text shown.
NoUiError == [shown |-> FALSE, icon |-> "", text |-> "", arg |-> 0]
UiError(icon, text, arg) == [shown |-> TRUE, icon |-> icon, text |-> text, arg |-> arg]
\* result: null, or the result object.
NoResult == [shown |-> FALSE, mode |-> "none", autoSaved |-> FALSE]

\* Math.round(a / b) for a >= 0, b > 0 (ties go up, as Math.round does).
RoundDiv(a, b) == (2 * a + b) \div (2 * b)

\* The upload callback of handleExtract (part_000, 457-461):
\*   pct = Math.round((uploaded / total) * 30)
UploadPctTruncating(uploaded, total) == (uploaded * 30) \div total
UploadPct(uploaded, total) == RoundDiv(uploaded * 30, total)

\* The poll callback of handleExtract (part_000, 479-481):
\*   extractPct = 30 + Math.round((progressData.percentage / 100) * 70)
ExtractPct(percentage) ==
    IF percentage = -1 THEN -1 ELSE 30 + RoundDiv(percentage * 70, 100)

\* Several setProgress(value) calls made in one callback: the state after
\* the callback is the value of the last call.
LastWrite(writes) == writes[Len(writes)]

\* The setProgress / setStatus calls of the upload callback (458-460).
UploadCallbackProgress(uploaded, total) ==
    LastWrite(<<Progress(uploaded, total, UploadPct(uploaded, total), "upload")>>)
UploadCallbackStatus(uploaded, total) == Status("Uploading: a/b images", uploaded, total)

Min(a, b) == IF a <= b THEN a ELSE b

\* ===================================================================
\*  Upload: uploadImages / uploadImagesChunked
\* ===================================================================

\* const totalFiles = files.length;
totalFiles == Len(files)

\* files.slice(from, from + CHUNK_SIZE) with a 0-based offset `from`
SliceOffByOne(fs, from) == SubSeq(fs, from + 1, Min(from + CHUNK_SIZE + 1, Len(fs)))
Slice(fs, from) == SubSeq(fs, from + 1, Min(from + CHUNK_SIZE, Len(fs)))

\* The FormData of one request: the "files" entries in append order and the
\* "batch_id" entry, appended only `if (batchId)`.
FormData(chunk, bid) == [files |-> chunk, batch_id |-> bid]

\* if (!batchId) { batchId = result.batch_id; }
AdoptLatestBatchId(bid, result) == result.batch_id
AdoptBatchId(bid, result) == IF bid = Null THEN result.batch_id ELSE bid

\* `Failed to upload chunk ${Math.floor(i / CHUNK_SIZE) + 1}`
ChunkErrorZeroBased(offset) ==
    [name |-> "Error", text |-> "Failed to upload chunk ", arg |-> offset \div CHUNK_SIZE]
ChunkError(offset) ==
    [name |-> "Error", text |-> "Failed to upload chunk ", arg |-> (offset \div CHUNK_SIZE) + 1]
\* new Error("Failed to upload images")
UploadError == [name |-> "Error", text |-> "Failed to upload images", arg |-> 0]
\* what fetch() rejects with on a transport failure
FetchRejection == [name |-> "TypeError", text |-> "Failed to fetch", arg |-> 0]
\* what response.json() rejects with on an unparsable body
JsonRejection == [name |-> "SyntaxError", text |-> "Unexpected token", arg |-> 0]

\* if (files.length <= CHUNK_SIZE) return uploadImages(files, onProgress);
IsSmallBatch(fs) == Len(fs) <= CHUNK_SIZE

\* `await fetch(...)`: the function rests until the request settles.
FireAndForget == "loop"
AwaitFetch == "await_fetch"

\* uploadedCount += chunk.length
CountWholeChunk(count, chunk) == count + CHUNK_SIZE
AddUploaded(count, chunk) == count + Len(chunk)

\* if (onProgress) onProgress(uploadedCount, totalFiles)  -- chunked path
ReportProgress(log, count) ==
    IF upOnProgress THEN Append(log, <<count, totalFiles>>) ELSE log

\* return { batch_id: batchId, file_count: totalFiles }
ChunkedReturn(bid) == [batch_id |-> bid, file_count |-> totalFiles]

\* for (let i = 0; i < files.length; i += CHUNK_SIZE)
LoopContinuesInclusive(offset) == offset <= Len(files)
LoopContinues(offset) == offset < Len(files)

\* A settled request whose body is not (yet) available.
NoBody == [batch_id |-> Null, file_count |-> 0]

Returned(v) == [kind |-> "return", value |-> v, error |-> NoError]
Thrown(e) == [kind |-> "throw", value |-> NoBody, error |-> e]

UploadInit ==
    /\ files \in {[k \in 1..n |-> k] : n \in 0..MaxFiles}
    /\ upOnProgress \in BOOLEAN
    /\ upPc = "start"
    /\ i = 0
    /\ batchId = Null
    /\ uploadedCount = 0
    /\ upCalls = <<>>
    /\ upInflight = {}
    /\ upResponses = <<>>
    /\ upProgress = <<>>
    /\ upResult = [kind |-> "none", value |-> NoBody, error |-> NoError]

\* Issue one POST /upload/images carrying `form`.
Post(form) ==
    /\ upCalls' = Append(upCalls, form)
    /\ upInflight' = upInflight \cup {Len(upCalls) + 1}

\* The request the function is waiting on.
Awaited == Len(upResponses) + 1

\* uploadImagesChunked entered with a small batch: delegates to uploadImages,
\* which builds one FormData from all files and issues the request (10-20).
UploadSmallStart ==
    /\ UNCHANGED <<pollVars, uiVars, runVars, cbVars, otherVars>>
    /\ upPc = "start"
    /\ IsSmallBatch(files)
    /\ Post([files |-> files, batch_id |-> Null])
    /\ upPc' = "single_fetch"
    /\ UNCHANGED <<files, upOnProgress, i, batchId, uploadedCount, upResponses,
                   upProgress, upResult>>

\* uploadImages: fetch settles (17-24).
UploadSmallFetchSettled ==
    /\ UNCHANGED <<pollVars, uiVars, runVars, cbVars, otherVars>>
    /\ upPc = "single_fetch"
    /\ Awaited \in upInflight
    /\ \E outcome \in {"ok", "http_error", "network_error"} :
         /\ upResponses' = Append(upResponses, [outcome |-> IF outcome = "ok" THEN "ok_unparsed" ELSE outcome,
                                              body |-> NoBody])
         /\ upInflight' = upInflight \ {Awaited}
         /\ IF outcome = "ok"
               THEN /\ upPc' = "single_json"
                    /\ UNCHANGED upResult
               ELSE /\ upPc' = "done"
                    /\ upResult' = Thrown(IF outcome = "http_error"
                                           THEN UploadError ELSE FetchRejection)
    /\ UNCHANGED <<files, upOnProgress, i, batchId, uploadedCount, upCalls, upProgress>>

\* uploadImages: return response.json() (26); the caller returns it unchanged.
UploadSmallJsonSettled ==
    /\ UNCHANGED <<pollVars, uiVars, runVars, cbVars, otherVars>>
    /\ upPc = "single_json"
    /\ \E parsed \in BOOLEAN, bid \in BatchIds :
         LET body == [batch_id |-> bid, file_count |-> Len(upCalls[Len(upCalls)].files)]
         IN /\ upResponses' = [upResponses EXCEPT ![Len(upResponses)] =
                                  IF parsed THEN [outcome |-> "ok", body |-> body]
                                            ELSE [outcome |-> "bad_json", body |-> NoBody]]
            /\ upResult' = IF parsed THEN Returned(body) ELSE Thrown(JsonRejection)
    /\ upPc' = "done"
    /\ UNCHANGED <<files, upOnProgress, i, batchId, uploadedCount, upCalls, upInflight,
                   upProgress>>

\* uploadImagesChunked entered with a large batch: initialise the loop (42-46).
UploadChunkedStart ==
    /\ UNCHANGED <<pollVars, uiVars, runVars, cbVars, otherVars>>
    /\ upPc = "start"
    /\ ~IsSmallBatch(files)
    /\ batchId' = Null
    /\ uploadedCount' = 0
    /\ i' = 0
    /\ upPc' = "loop"
    /\ UNCHANGED <<files, upOnProgress, upCalls, upInflight, upResponses, upProgress,
                   upResult>>

\* One pass through the loop head and body up to `await fetch` (46-62).
UploadSendChunk ==
    /\ UNCHANGED <<pollVars, uiVars, runVars, cbVars, otherVars>>
    /\ upPc = "loop"
    /\ LoopContinues(i)
    /\ Post(FormData(Slice(files, i), batchId))
    /\ upPc' = AwaitFetch
    /\ UNCHANGED <<files, upOnProgress, i, batchId, uploadedCount, upResponses,
                   upProgress, upResult>>

\* Loop condition false: return { batch_id, file_count } (82).
UploadChunkedReturn ==
    /\ UNCHANGED <<pollVars, uiVars, runVars, cbVars, otherVars>>
    /\ upPc = "loop"
    /\ ~LoopContinues(i)
    /\ upPc' = "done"
    /\ upResult' = Returned(ChunkedReturn(batchId))
    /\ UNCHANGED <<files, upOnProgress, i, batchId, uploadedCount, upCalls, upInflight,
                   upResponses, upProgress>>

\* await fetch settles; if (!response.ok) throw (59-66).
UploadFetchSettled ==
    /\ UNCHANGED <<pollVars, uiVars, runVars, cbVars, otherVars>>
    /\ upPc = AwaitFetch
    /\ Awaited \in upInflight
    /\ \E outcome \in {"ok", "http_error", "network_error"} :
         /\ upResponses' = Append(upResponses, [outcome |-> IF outcome = "ok" THEN "ok_unparsed" ELSE outcome,
                                              body |-> NoBody])
         /\ upInflight' = upInflight \ {Awaited}
         /\ IF outcome = "ok"
               THEN /\ upPc' = "await_json"
                    /\ UNCHANGED upResult
               ELSE /\ upPc' = "done"
                    /\ upResult' = Thrown(IF outcome = "http_error"
                                           THEN ChunkError(i) ELSE FetchRejection)
    /\ UNCHANGED <<files, upOnProgress, i, batchId, uploadedCount, upCalls, upProgress>>

\* await response.json() settles; bookkeeping, onProgress, i += CHUNK_SIZE (68-80).
UploadJsonSettled ==
    /\ UNCHANGED <<pollVars, runVars, uiQuiet, cbVars, otherVars>>
    /\ upPc = "await_json"
    /\ \E parsed \in BOOLEAN, bid \in BatchIds :
         LET chunk == upCalls[Len(upCalls)].files
             result == [batch_id |-> bid, file_count |-> Len(chunk)]
         IN IF parsed
               THEN /\ upResponses' = [upResponses EXCEPT ![Len(upResponses)] =
                                          [outcome |-> "ok", body |-> result]]
                    /\ batchId' = AdoptBatchId(batchId, result)
                    /\ uploadedCount' = AddUploaded(uploadedCount, chunk)
                    /\ upProgress' = ReportProgress(upProgress, AddUploaded(uploadedCount, chunk))
                    /\ i' = i + CHUNK_SIZE
                    /\ upPc' = "loop"
                    /\ UNCHANGED upResult
                    /\ IF runPc = "await_upload"
                          THEN \* the callback handleExtract passed
                               LET uploaded == AddUploaded(uploadedCount, chunk)
                               IN /\ progress' = UploadCallbackProgress(uploaded, totalFiles)
                                  /\ uiStatus' = UploadCallbackStatus(uploaded, totalFiles)
                          ELSE UNCHANGED <<progress, uiStatus>>
               ELSE /\ upResponses' = [upResponses EXCEPT ![Len(upResponses)] =
                                          [outcome |-> "bad_json", body |-> NoBody]]
                    /\ upPc' = "done"
                    /\ upResult' = Thrown(JsonRejection)
                    /\ UNCHANGED <<batchId, uploadedCount, upProgress, i, progress, uiStatus>>
    /\ UNCHANGED <<files, upOnProgress, upCalls, upInflight>>

UploadNext ==
    \/ UploadSmallStart
    \/ UploadSmallFetchSettled
    \/ UploadSmallJsonSettled
    \/ UploadChunkedStart
    \/ UploadSendChunk
    \/ UploadChunkedReturn
    \/ UploadFetchSettled
    \/ UploadJsonSettled

\* ===================================================================
\*  Strings.  A JS string is modelled as the sequence of its characters, so
\*  that startsWith and split are computed as the engine computes them.
\* ===================================================================

S_error == <<"e", "r", "r", "o", "r">>
S_completed == <<"c", "o", "m", "p", "l", "e", "t", "e", "d">>
S_not_found == <<"n", "o", "t", "_", "f", "o", "u", "n", "d">>
S_queued == <<"q", "u", "e", "u", "e", "d">>
S_processing == <<"p", "r", "o", "c", "e", "s", "s", "i", "n", "g">>
S_unknown == <<"u", "n", "k", "n", "o", "w", "n">>
S_rate_limit == <<"r", "a", "t", "e", "_", "l", "i", "m", "i", "t">>
S_insufficient_credits ==
    <<"i", "n", "s", "u", "f", "f", "i", "c", "i", "e", "n", "t", "_",
      "c", "r", "e", "d", "i", "t", "s">>
S_invalid_key == <<"i", "n", "v", "a", "l", "i", "d", "_", "k", "e", "y">>
S_no_valid_data == <<"n", "o", "_", "v", "a", "l", "i", "d", "_", "d", "a", "t", "a">>
S_colon == <<":">>
S_constructor == <<"c", "o", "n", "s", "t", "r", "u", "c", "t", "o", "r">>

\* String.prototype.startsWith
StartsWith(s, prefix) ==
    /\ Len(s) >= Len(prefix)
    /\ SubSeq(s, 1, Len(prefix)) = prefix

\* String.prototype.split with a one-character separator: the array of the
\* pieces between separators (an empty string gives one empty piece).
RECURSIVE Split(_, _)
Split(s, sep) ==
    IF \A k \in 1..Len(s) : s[k] # sep
       THEN <<s>>
       ELSE LET p == CHOOSE k \in 1..Len(s) :
                        s[k] = sep /\ \A j \in 1..(k - 1) : s[j] # sep
            IN <<SubSeq(s, 1, p - 1)>> \o Split(SubSeq(s, p + 1, Len(s)), sep)

\* ===================================================================
\*  Poll: getJobStatus / pollJobStatus
\* ===================================================================

\* The `status` strings a server may report (status.status).  HasStatus is
\* FALSE for a body without a status field (status.status is undefined).
StatusStrings ==
    { S_queued, S_processing, S_completed, S_not_found,
      S_error \o S_colon \o S_rate_limit,
      S_error \o S_colon \o S_invalid_key,
      S_error \o S_colon \o S_rate_limit \o S_colon \o <<"4", "2", "9">>,
      S_error \o S_colon \o S_constructor,
      S_error \o S_colon,
      S_error }

\* error_message as the server may send it: absent, or a text.
ServerMessages == {Null, "Quota exceeded for this key"}

\* A status object: {status, error_message, percentage, processed, total}.
\* percentage / processed / total of -1 stand for an absent field.
JobStatus(st, msg, processed, total) ==
    [hasStatus |-> TRUE, status |-> st, error_message |-> msg,
     percentage |-> (100 * processed) \div total, processed |-> processed,
     total |-> total]
NoStatus == [hasStatus |-> FALSE, status |-> <<>>, error_message |-> Null,
             percentage |-> -1, processed |-> -1, total |-> -1]

\* The status objects drawn when pollJobStatus is exercised on its own.
JobStatusBodies ==
    {JobStatus(st, msg, 11, 20) : st \in StatusStrings, msg \in ServerMessages}
      \cup {NoStatus}

\* The status objects drawn when the job polled belongs to a run of
\* handleExtract: progress reports at 10% and 55%, completion, a typed
\* error.  (Nothing orders the percentages: a job may report 55 then 10.)
ExtractStatusBodies ==
    { JobStatus(S_processing, Null, 2, 20),
      JobStatus(S_processing, Null, 11, 20),
      JobStatus(S_completed, Null, 20, 20),
      JobStatus(S_error \o S_colon \o S_rate_limit, Null, 11, 20) }

\* What fetch(`/extract/batch/status/${jobId}`) can settle with.
\*   network  FALSE: fetch rejected (transport failure)
\*   code     HTTP status code; response.ok is 200 <= code <= 299
\*   parses   whether response.json() succeeds, and then `body`
HttpResponsesOf(bodies) ==
    [network : {TRUE}, code : {200}, parses : {TRUE}, body : bodies]
      \cup [network : {TRUE}, code : {200}, parses : {FALSE}, body : {NoStatus}]
      \cup [network : {TRUE}, code : {403, 404, 500}, parses : {FALSE}, body : {NoStatus}]
      \cup [network : {FALSE}, code : {0}, parses : {FALSE}, body : {NoStatus}]
HttpResponses ==
    IF runPc = "unused" THEN HttpResponsesOf(JobStatusBodies)
                        ELSE HttpResponsesOf(ExtractStatusBodies)

NoPollError == [name |-> Null, message |-> Null, hasErrorType |-> FALSE, errorType |-> <<>>]
PlainError(name, message) ==
    [name |-> name, message |-> message, hasErrorType |-> FALSE, errorType |-> <<>>]

ResponseOk(resp) == resp.code >= 200 /\ resp.code <= 299

\* getJobStatus(jobId): the value returned, or the error thrown.
getJobStatusThrowing404(resp) ==
    IF ~resp.network
       THEN [threw |-> TRUE, value |-> NoStatus,
             error |-> PlainError("TypeError", "Failed to fetch")]
    ELSE IF ~ResponseOk(resp)
       THEN [threw |-> TRUE, value |-> NoStatus,
             error |-> PlainError("Error", "Failed to get job status")]
    ELSE IF ~resp.parses
       THEN [threw |-> TRUE, value |-> NoStatus,
             error |-> PlainError("SyntaxError", "Unexpected token")]
    ELSE [threw |-> FALSE, value |-> resp.body, error |-> NoPollError]
getJobStatus(resp) ==
    IF ~resp.network
       THEN [threw |-> TRUE, value |-> NoStatus,
             error |-> PlainError("TypeError", "Failed to fetch")]
    ELSE IF ~ResponseOk(resp)
       THEN IF resp.code = 404
               THEN [threw |-> FALSE,
                     value |-> [NoStatus EXCEPT !.hasStatus = TRUE,
                                                !.status = S_not_found],
                     error |-> NoPollError]
               ELSE [threw |-> TRUE, value |-> NoStatus,
                     error |-> PlainError("Error", "Failed to get job status")]
    ELSE IF ~resp.parses
       THEN [threw |-> TRUE, value |-> NoStatus,
             error |-> PlainError("SyntaxError", "Unexpected token")]
    ELSE [threw |-> FALSE, value |-> resp.body, error |-> NoPollError]

\* getDefaultErrorMessage(errorType): messages[errorType] || messages["unknown"]
\* `messages` is an object literal, so the lookup also finds the members it
\* inherits from Object.prototype (constructor, toString, ...), which are
\* truthy; new Error(f) then carries String(f) as its message.
getDefaultErrorMessage(errorType) ==
    CASE errorType = S_rate_limit ->
           "API rate limit exceeded. Please wait a moment and try again."
      [] errorType = S_insufficient_credits ->
           "API credits exhausted. Please add credits to your account or switch to a different AI provider in Settings."
      [] errorType = S_invalid_key ->
           "API key is invalid or expired. Please check your API key in Settings."
      [] errorType = S_no_valid_data ->
           "No text could be extracted from the images. Please try with clearer images."
      [] errorType = S_unknown ->
           "An unexpected error occurred during extraction."
      [] errorType = S_constructor ->
           "function Object() { [native code] }"
      [] OTHER -> "An unexpected error occurred during extraction."

\* status.status.split(":")[1] || "unknown"
ErrorTypeFirstPiece(status) == Split(status.status, ":")[1]
ErrorTypeOf(status) ==
    LET parts == Split(status.status, ":")
    IN IF Len(parts) >= 2 /\ parts[2] # <<>> THEN parts[2] ELSE S_unknown

\* status.error_message || getDefaultErrorMessage(errorType)
ErrorMessageOf(status, errorType) ==
    IF status.error_message # Null /\ status.error_message # ""
       THEN status.error_message
       ELSE getDefaultErrorMessage(errorType)

\* The if / else-if chain of poll(): which branch a fetched status takes.
BranchIgnoringCompleted(status) ==
    IF status.hasStatus /\ StartsWith(status.status, S_error) THEN "reject_error"
    ELSE IF status.hasStatus /\ status.status = S_not_found THEN "reject_not_found"
    ELSE "continue"
BranchRetryingNotFound(status) ==
    IF status.hasStatus /\ status.status = S_completed THEN "resolve"
    ELSE IF status.hasStatus /\ StartsWith(status.status, S_error) THEN "reject_error"
    ELSE "continue"
Branch(status) ==
    IF status.hasStatus /\ status.status = S_completed THEN "resolve"
    ELSE IF status.hasStatus /\ StartsWith(status.status, S_error) THEN "reject_error"
    ELSE IF status.hasStatus /\ status.status = S_not_found THEN "reject_not_found"
    ELSE "continue"

\* The error object built in the error branch.
PollError(status) ==
    [name |-> "Error", message |-> ErrorMessageOf(status, ErrorTypeOf(status)),
     hasErrorType |-> TRUE, errorType |-> ErrorTypeOf(status)]

\* setTimeout(poll, intervalMs)
intervalMs == DefaultIntervalMs
ScheduleNothing(timers) == timers
ScheduleTwoTicks(timers) == timers \o <<intervalMs, intervalMs>>
ScheduleTick(timers) == Append(timers, intervalMs)

\* Job identifiers (opaque tokens handed out by POST /extract/batch/async).
JobIds == {"job1", "job2"}

\* handleProgressUpdate(progressData) (351-363): the progress it stores is
\* {...progressData, backendStage}, so it carries the job's own percentage
\* and the job's own stage text.
handleProgressUpdateProgress(progressData) ==
    Progress(progressData.processed, progressData.total, progressData.percentage,
             "backend stage")
handleProgressUpdateStatus(progressData, current) ==
    IF progressData.hasStatus /\ progressData.status = S_processing
       THEN Status("Processing: a/b images (p%)", progressData.processed, progressData.total)
    ELSE IF progressData.hasStatus /\ progressData.status = S_completed
       THEN Status("Extraction complete!", 0, 0)
    ELSE current

\* The poll callback of handleExtract (479-488): setProgress with the
\* composed percentage, then handleProgressUpdate(progressData), which
\* calls setProgress again.
ExtractionProgress(progressData) ==
    Progress(progressData.processed, progressData.total,
             ExtractPct(progressData.percentage), "extraction")
PollCallbackProgress(progressData) ==
    LastWrite(<<ExtractionProgress(progressData),
                handleProgressUpdateProgress(progressData)>>)

\* One entry of pollEvents.
Event(op) == [op |-> op, job |-> pollJobId]

\* if (onProgress) { onProgress(status); }  -- the arguments passed, in order
ProgressCallsNonTerminal(status) ==
    IF pollOnProgress /\ Branch(status) = "continue" THEN <<status>> ELSE <<>>
ProgressCalls(status) == IF pollOnProgress THEN <<status>> ELSE <<>>

Pending == [state |-> "pending", value |-> NoStatus, error |-> NoPollError]
Resolved(v) == [state |-> "resolved", value |-> v, error |-> NoPollError]
Rejected(e) == [state |-> "rejected", value |-> NoStatus, error |-> e]

PollInit ==
    /\ pollOnProgress \in BOOLEAN
    /\ pollPc = "idle"
    /\ pollRequests = 0
    /\ pollInflight = 0
    /\ pollTimers = <<>>
    /\ pollFetched = <<>>
    /\ pollProgress = <<>>
    /\ pollPromise = Pending
    /\ pollJobId \in JobIds
    /\ pollHttp = <<>>
    /\ pollEvents = <<>>

\* pollJobStatus is called: the promise executor runs poll(), which issues
\* the first getJobStatus request and rests at its await.
PollStart ==
    /\ UNCHANGED <<upVars, uiVars, runVars, cbVars, otherVars>>
    /\ pollPc = "idle"
    /\ pollRequests' = pollRequests + 1
    /\ pollInflight' = pollInflight + 1
    /\ pollPc' = "fetching"
    /\ pollEvents' = Append(pollEvents, Event("request"))
    /\ UNCHANGED <<pollOnProgress, pollTimers, pollFetched, pollProgress, pollPromise,
                   pollJobId, pollHttp>>

\* await getJobStatus(jobId) settles; the rest of poll() runs.  The callback
\* is the caller's code and is taken to return normally.
PollStatusSettled ==
    /\ UNCHANGED <<upVars, runVars, uiQuiet, cbVars, otherVars>>
    /\ pollPc = "fetching"
    /\ pollInflight > 0
    /\ pollInflight' = pollInflight - 1
    /\ \E resp \in HttpResponses :
         LET r == getJobStatus(resp)
             status == r.value
             called == [k \in 1..Len(ProgressCalls(status)) |-> Event("progress")]
         IN /\ pollHttp' = Append(pollHttp, resp)
            /\ IF r.threw
               THEN \* catch (error) { reject(error); }
                    /\ pollPromise' = Rejected(r.error)
                    /\ pollPc' = "settled"
                    /\ pollEvents' = Append(pollEvents, Event("reject"))
                    /\ UNCHANGED <<pollFetched, pollProgress, pollTimers, progress, uiStatus>>
               ELSE /\ pollFetched' = Append(pollFetched, status)
                    /\ IF runPc = "await_poll" /\ ProgressCalls(status) # <<>>
                          THEN \* the callback handleExtract passed
                               /\ progress' = PollCallbackProgress(status)
                               /\ uiStatus' = handleProgressUpdateStatus(status, uiStatus)
                          ELSE UNCHANGED <<progress, uiStatus>>
                    /\ pollProgress' = pollProgress \o ProgressCalls(status)
                    /\ CASE Branch(status) = "resolve" ->
                              /\ pollPromise' = Resolved(status)
                              /\ pollPc' = "settled"
                              /\ pollEvents' = pollEvents \o called \o <<Event("resolve")>>
                              /\ UNCHANGED pollTimers
                         [] Branch(status) = "reject_error" ->
                              /\ pollPromise' = Rejected(PollError(status))
                              /\ pollPc' = "settled"
                              /\ pollEvents' = pollEvents \o called \o <<Event("reject")>>
                              /\ UNCHANGED pollTimers
                         [] Branch(status) = "reject_not_found" ->
                              /\ pollPromise' = Rejected(PlainError("Error", "Job not found"))
                              /\ pollPc' = "settled"
                              /\ pollEvents' = pollEvents \o called \o <<Event("reject")>>
                              /\ UNCHANGED pollTimers
                         [] Branch(status) = "continue" ->
                              /\ pollTimers' = ScheduleTick(pollTimers)
                              /\ pollPc' = "timer"
                              /\ pollEvents' = pollEvents \o called \o <<Event("timer")>>
                              /\ UNCHANGED pollPromise
    /\ UNCHANGED <<pollOnProgress, pollRequests, pollJobId>>

\* A pending timer fires: poll() runs again and issues the next request.
PollTimerFires ==
    /\ UNCHANGED <<upVars, uiVars, runVars, cbVars, otherVars>>
    /\ pollTimers # <<>>
    /\ pollRequests < MaxPolls
    /\ pollTimers' = Tail(pollTimers)
    /\ pollRequests' = pollRequests + 1
    /\ pollInflight' = pollInflight + 1
    /\ pollPc' = "fetching"
    /\ pollEvents' = Append(pollEvents, Event("request"))
    /\ UNCHANGED <<pollOnProgress, pollFetched, pollProgress, pollPromise, pollJobId,
                   pollHttp>>

PollNext ==
    \/ PollStart
    \/ PollStatusSettled
    \/ PollTimerFires

\* ===================================================================
\*  handleExtract / handleTerminate (part_000)
\* ===================================================================

\* LIMITS.syncMax (part_000, 165)
SyncMax == 0

\* function shouldUseAsync(imageCount) (326-331)
shouldUseAsyncIgnoringMode(imageCount) == imageCount > SyncMax
shouldUseAsync(imageCount) ==
    IF processingMode = "sync" THEN FALSE
    ELSE IF processingMode = "async" THEN TRUE
    ELSE imageCount > SyncMax

\* LIMITS.recommended / warning / danger (part_000, 166-168)
Recommended == 500
Warning == 2000
Danger == 5000

\* function getWarningLevel(imageCount) (318-324)
getWarningLevelStrict(imageCount) ==
    IF imageCount > Danger THEN "danger"
    ELSE IF imageCount > Warning THEN "warning"
    ELSE IF imageCount > Recommended THEN "caution"
    ELSE "ok"
getWarningLevel(imageCount) ==
    IF imageCount >= Danger THEN "danger"
    ELSE IF imageCount >= Warning THEN "warning"
    ELSE IF imageCount >= Recommended THEN "caution"
    ELSE "ok"

\* String.prototype.trim on a character sequence (blanks only).
RECURSIVE TrimLeft(_)
TrimLeft(f) == IF f # <<>> /\ Head(f) = " " THEN TrimLeft(Tail(f)) ELSE f
RECURSIVE TrimRight(_)
TrimRight(f) ==
    IF f # <<>> /\ f[Len(f)] = " " THEN TrimRight(SubSeq(f, 1, Len(f) - 1)) ELSE f
Trim(f) == TrimRight(TrimLeft(f))

\* fields.forEach(f => { if (f.trim()) schema[f.trim()] = null })  (336-338):
\* the keys assigned, in the order of their first assignment (assigning an
\* existing key again does not move it).
RECURSIVE AssignedKeys(_)
AssignedKeys(fields) ==
    IF fields = <<>> THEN <<>>
    ELSE LET before == AssignedKeys(SubSeq(fields, 1, Len(fields) - 1))
             key == Trim(fields[Len(fields)])
         IN IF key = <<>> \/ (\E k \in 1..Len(before) : before[k] = key)
               THEN before
               ELSE Append(before, key)

\* A property key that is a canonical array index ("0", "7", "12", ...):
\* decimal digits only, no leading zero.  (Keys of up to nine digits are
\* below 2^32 - 1, the largest array index.)
Digits == <<"0", "1", "2", "3", "4", "5", "6", "7", "8", "9">>
IsDigit(c) == \E d \in 1..10 : Digits[d] = c
DigitValue(c) == (CHOOSE d \in 1..10 : Digits[d] = c) - 1
IsIndexKey(key) ==
    /\ key # <<>>
    /\ Len(key) <= 9
    /\ \A k \in 1..Len(key) : IsDigit(key[k])
    /\ Len(key) > 1 => key[1] # "0"
RECURSIVE IndexValue(_)
IndexValue(key) ==
    IF key = <<>> THEN 0
    ELSE 10 * IndexValue(SubSeq(key, 1, Len(key) - 1)) + DigitValue(key[Len(key)])

\* The own property keys of an ordinary object, in the order the language
\* enumerates them (and JSON.stringify writes them): array-index keys in
\* ascending numeric order first, then the other keys in insertion order.
RECURSIVE AscendingIndexKeys(_)
AscendingIndexKeys(keys) ==
    IF keys = {} THEN <<>>
    ELSE LET least == CHOOSE a \in keys : \A b \in keys : IndexValue(a) <= IndexValue(b)
         IN <<least>> \o AscendingIndexKeys(keys \ {least})
OwnPropertyKeys(assigned) ==
    AscendingIndexKeys({assigned[k] : k \in {j \in 1..Len(assigned) : IsIndexKey(assigned[j])}})
      \o SelectSeq(assigned, LAMBDA key : ~IsIndexKey(key))

\* function buildSchema(fields) (333-340): the schema object, kept as the
\* sequence of its keys in enumeration order (every value is null).
buildSchema(fields) == OwnPropertyKeys(AssignedKeys(fields))

\* schemaFields.filter(f => f.trim()).length === 0
NoFieldDefined(fields) == \A k \in 1..Len(fields) : Trim(fields[k]) = <<>>

\* The numbers of selected images and the field lists a run is started with.
ExtractFileCounts == {0, 1, CHUNK_SIZE + 1, 2 * CHUNK_SIZE + 1}
ExtractSchemaFields ==
    { << <<>> >>,
      << <<" ", " ">>, <<>> >>,
      << <<" ", "a">>, <<"b", " ">>, <<"a">>, <<>> >>,
      << <<"n", "o">>, <<"1", "0">>, <<"9">> >> }

\* The body of POST /extract/batch and POST /extract/batch/async (88-129).
ExtractRequestWithoutBatch(endpoint, uploaded, schema) ==
    [endpoint |-> endpoint, batch_id |-> Null, schema |-> schema]
ExtractRequest(endpoint, uploaded, schema) ==
    [endpoint |-> endpoint, batch_id |-> uploaded.batch_id, schema |-> schema]

\* An error as the catch block of handleExtract sees it.
Caught(name, message, arg, errorType) ==
    [name |-> name, message |-> message, arg |-> arg, errorType |-> errorType]
\* thrown by uploadImagesChunked
CaughtFromUpload(e) == Caught(e.name, e.text, e.arg, <<>>)
\* the rejection of pollJobStatus; err.errorType || ''
CaughtFromPoll(e) ==
    Caught(e.name, e.message, 0, IF e.hasErrorType THEN e.errorType ELSE <<>>)
\* thrown by extractBatch / extractBatchAsync
ExtractFailure(endpoint, outcome) ==
    CASE outcome = "http_error" ->
           Caught("Error",
                  IF endpoint = "/extract/batch" THEN "Failed to extract batch"
                                                 ELSE "Failed to queue extraction job",
                  0, <<>>)
      [] outcome = "network_error" -> Caught("TypeError", "Failed to fetch", 0, <<>>)
      [] outcome = "bad_json" -> Caught("SyntaxError", "Unexpected token", 0, <<>>)

\* `await f(...)`: a rejection of the awaited call is thrown on into the
\* try block, which skips to catch.
Swallows(settled) == FALSE
Rethrows(settled) == settled.kind = "throw"

\* How an extraction request can end.
ExtractOutcomes == {"ok", "http_error", "network_error", "bad_json"}

\* The icon chosen in the catch block (534-547).
Icon(errorType) ==
    CASE errorType = S_rate_limit -> "warning"
      [] errorType = S_insufficient_credits -> "card"
      [] errorType = S_invalid_key -> "key"
      [] errorType = S_no_valid_data -> "page"
      [] OTHER -> "cross"

\* The state the catch and finally blocks set.
CatchWrites(err) ==
    /\ IF err.name = "AbortError"
          THEN /\ uiError' = UiError("stop", "Operation cancelled by user", 0)
               /\ uiStatus' = Status("Cancelled", 0, 0)
          ELSE /\ uiError' = UiError(Icon(err.errorType),
                                     IF err.message = "" THEN "Something went wrong"
                                                         ELSE err.message,
                                     err.arg)
               /\ uiStatus' = Status("", 0, 0)
    /\ progress' = NoProgress
    /\ loading' = FALSE
    /\ abortController' = Null
CatchAndFinally(err) ==
    /\ CatchWrites(err)
    /\ runEnd' = IF err.name = "AbortError" THEN "cancelled" ELSE "error"
    /\ runPc' = "ended"

\* setResult ... setStatus("Extraction complete!"), then finally (519-526, 553-557).
SucceedAndFinally(mode, savedPath) ==
    /\ uiResult' = [shown |-> TRUE, mode |-> mode, autoSaved |-> savedPath]
    /\ progress' = Progress(Len(filesState), Len(filesState), 100, "complete")
    /\ uiStatus' = Status("Extraction complete!", 0, 0)
    /\ loading' = FALSE
    /\ abortController' = Null
    /\ runPc' = "ended"
    /\ runEnd' = "success"

\* if (outputFolder) { setStatus(...); savedPath = await autoSaveFile(...) }
\* (512-517), or straight on to setResult.
AfterExtraction(mode) ==
    IF outputFolder
       THEN /\ uiStatus' = Status("Auto-saving file...", 0, 0)
            /\ saveCalls' = saveCalls + 1
            /\ runPc' = "await_autosave"
            /\ UNCHANGED <<uiResult, progress, loading, abortController, runEnd>>
       ELSE /\ SucceedAndFinally(mode, FALSE)
            /\ UNCHANGED saveCalls

\* The state before the Extract button is pressed.  processingMode is
\* declared with useState("auto") and its setter is never called; the other
\* two values shouldUseAsync tests for are drawn as well.
ExtractInputs ==
    /\ filesState \in {[k \in 1..n |-> k] : n \in ExtractFileCounts}
    /\ schemaFields \in ExtractSchemaFields
    /\ processingMode \in {"auto", "sync", "async"}
    /\ outputFolder \in BOOLEAN
RunNotStarted ==
    /\ runPc = "idle"
    /\ runEnd = "none"
    /\ useAsync = FALSE
    /\ aborted = FALSE
    /\ uploadRes = NoBody
    /\ jobRes = Null
    /\ extractCalls = <<>>
    /\ extractInflight = 0
    /\ extractResponses = <<>>
    /\ saveCalls = 0
ExtractInit ==
    /\ ExtractInputs
    /\ loading = FALSE
    /\ uiStatus = Status("", 0, 0)
    /\ uiResult = NoResult
    /\ uiError = NoUiError
    /\ progress = NoProgress
    /\ abortController = Null
    /\ runPc = "idle"
    /\ runEnd = "none"
    /\ useAsync = FALSE
    /\ aborted = FALSE
    /\ uploadRes = NoBody
    /\ jobRes = Null
    /\ extractCalls = <<>>
    /\ extractInflight = 0
    /\ extractResponses = <<>>
    /\ saveCalls = 0

\* The Extract button is pressed (it is disabled while loading, 756-762):
\* handleExtract runs up to its first await (429-456).
HandleExtract ==
    /\ UNCHANGED <<cbVars, otherVars>>
    /\ runPc = "idle"
    /\ ~loading
    /\ UNCHANGED <<pollVars, filesState, schemaFields, processingMode, outputFolder,
                   uploadRes, jobRes, extractCalls, extractInflight, extractResponses,
                   saveCalls>>
    /\ IF Len(filesState) = 0
          THEN /\ uiError' = UiError("", "Please upload at least one image", 0)
               /\ runPc' = "ended"
               /\ runEnd' = "validation"
               /\ UNCHANGED <<upVars, loading, uiStatus, uiResult, progress,
                              abortController, useAsync, aborted>>
       ELSE IF NoFieldDefined(schemaFields)
          THEN /\ uiError' = UiError("", "Please define at least one field to extract", 0)
               /\ runPc' = "ended"
               /\ runEnd' = "validation"
               /\ UNCHANGED <<upVars, loading, uiStatus, uiResult, progress,
                              abortController, useAsync, aborted>>
       ELSE /\ uiError' = NoUiError
            /\ loading' = TRUE
            /\ uiResult' = NoResult
            /\ abortController' = "controller"
            /\ aborted' = FALSE
            /\ useAsync' = shouldUseAsync(Len(filesState))
            /\ progress' = LastWrite(<<NoProgress,
                                       Progress(0, Len(filesState), 0, "upload")>>)
            /\ uiStatus' = Status("Uploading a images...", Len(filesState), 0)
            \* uploadImagesChunked(files, callback) is entered
            /\ files' = filesState
            /\ upOnProgress' = TRUE
            /\ upPc' = "start"
            /\ UNCHANGED <<i, batchId, uploadedCount, upCalls, upInflight, upResponses,
                           upProgress, upResult>>
            /\ runPc' = "await_upload"
            /\ UNCHANGED runEnd

\* await uploadImagesChunked(...) settles (457-509): on a throw the catch
\* block runs, otherwise the extraction request of the chosen mode is sent.
ExtractUploadSettled ==
    /\ UNCHANGED <<cbVars, otherVars>>
    /\ runPc = "await_upload"
    /\ upPc = "done"
    /\ UNCHANGED <<upVars, pollVars, filesState, schemaFields, processingMode,
                   outputFolder, uiResult, useAsync, aborted, jobRes, extractResponses,
                   saveCalls>>
    /\ IF Rethrows(upResult)
          THEN /\ CatchAndFinally(CaughtFromUpload(upResult.error))
               /\ UNCHANGED <<uploadRes, extractCalls, extractInflight>>
          ELSE /\ uploadRes' = upResult.value
               /\ extractCalls' =
                     Append(extractCalls,
                            ExtractRequest(IF useAsync THEN "/extract/batch/async"
                                                       ELSE "/extract/batch",
                                           upResult.value, buildSchema(schemaFields)))
               /\ extractInflight' = extractInflight + 1
               /\ uiStatus' = IF useAsync
                                 THEN Status("Queuing extraction job...", 0, 0)
                                 ELSE Status("Running OCR + AI extraction on a images...",
                                             Len(filesState), 0)
               /\ progress' = Progress(0, Len(filesState), 30, "extraction")
               /\ runPc' = IF useAsync THEN "await_enqueue" ELSE "await_extract"
               /\ UNCHANGED <<uiError, loading, abortController, runEnd>>

\* await extractBatchAsync(...) settles (474-479): pollJobStatus is entered
\* with the job id returned, or the catch block runs.
ExtractEnqueueSettled ==
    /\ UNCHANGED <<cbVars, otherVars>>
    /\ runPc = "await_enqueue"
    /\ extractInflight > 0
    /\ extractInflight' = extractInflight - 1
    /\ UNCHANGED <<upVars, filesState, schemaFields, processingMode, outputFolder,
                   uiResult, useAsync, aborted, uploadRes, extractCalls, saveCalls>>
    /\ \E outcome \in ExtractOutcomes, job \in JobIds :
       /\ extractResponses' = Append(extractResponses, outcome)
       /\ IF outcome = "ok"
            THEN /\ jobRes' = job
                 /\ uiStatus' = Status("Processing: 0/a images (0%)", Len(filesState), 0)
                 /\ progress' = Progress(0, Len(filesState), 30, "extraction")
                 /\ pollJobId' = job
                 /\ pollOnProgress' = TRUE
                 /\ pollPc' = "idle"
                 /\ UNCHANGED <<pollRequests, pollInflight, pollTimers, pollFetched,
                                pollProgress, pollPromise, pollHttp, pollEvents>>
                 /\ runPc' = "await_poll"
                 /\ UNCHANGED <<uiError, loading, abortController, runEnd>>
            ELSE /\ CatchAndFinally(ExtractFailure("/extract/batch/async", outcome))
                 /\ UNCHANGED <<pollVars, jobRes>>

\* await pollJobStatus(...) settles (479-495).
ExtractPollSettled ==
    /\ UNCHANGED <<cbVars, otherVars>>
    /\ runPc = "await_poll"
    /\ pollPromise.state # "pending"
    /\ UNCHANGED <<upVars, pollVars, filesState, schemaFields, processingMode,
                   outputFolder, useAsync, aborted, uploadRes, jobRes, extractCalls,
                   extractInflight, extractResponses>>
    /\ IF pollPromise.state = "rejected"
          THEN /\ CatchAndFinally(CaughtFromPoll(pollPromise.error))
               /\ UNCHANGED <<uiResult, saveCalls>>
          ELSE /\ AfterExtraction("async")
               /\ UNCHANGED uiError

\* await extractBatch(...) settles (502-509).
ExtractSyncSettled ==
    /\ UNCHANGED <<cbVars, otherVars>>
    /\ runPc = "await_extract"
    /\ extractInflight > 0
    /\ extractInflight' = extractInflight - 1
    /\ UNCHANGED <<upVars, pollVars, filesState, schemaFields, processingMode,
                   outputFolder, useAsync, aborted, uploadRes, jobRes, extractCalls>>
    /\ \E outcome \in ExtractOutcomes :
       /\ extractResponses' = Append(extractResponses, outcome)
       /\ IF outcome = "ok"
            THEN /\ AfterExtraction("sync")
                 /\ UNCHANGED uiError
            ELSE /\ CatchAndFinally(ExtractFailure("/extract/batch", outcome))
                 /\ UNCHANGED <<uiResult, saveCalls>>

\* await autoSaveFile(...) settles (366-426, 516): it catches everything
\* and returns a path or null.
ExtractAutoSaveSettled ==
    /\ UNCHANGED <<cbVars, otherVars>>
    /\ runPc = "await_autosave"
    /\ UNCHANGED <<upVars, pollVars, filesState, schemaFields, processingMode,
                   outputFolder, uiError, useAsync, aborted, uploadRes, jobRes,
                   extractCalls, extractInflight, extractResponses, saveCalls>>
    /\ \E savedPath \in BOOLEAN :
         SucceedAndFinally(IF useAsync THEN "async" ELSE "sync", savedPath)

\* The Terminate button is pressed (561-569); it is rendered only while
\* loading && progress (765, 815-821).
HandleTerminate ==
    /\ UNCHANGED <<cbVars, otherVars>>
    /\ loading
    /\ progress.shown
    /\ IF abortController # Null
          THEN \* abort() acts on the controller the state holds
               /\ aborted' = (aborted \/ abortController = "controller")
               /\ abortController' = Null
               /\ loading' = FALSE
               /\ uiStatus' = Status("Operation terminated", 0, 0)
               /\ progress' = NoProgress
          ELSE UNCHANGED <<aborted, abortController, loading, uiStatus, progress>>
    /\ UNCHANGED <<upVars, pollVars, filesState, schemaFields, processingMode,
                   outputFolder, uiResult, uiError, runPc, runEnd, useAsync, uploadRes,
                   jobRes, extractCalls, extractInflight, extractResponses, saveCalls>>

\* The Extract button is pressed again after a run was started; the button
\* is enabled whenever loading is false (756-762).  The new run executes
\* handleExtract up to its first await (429-456): validation, the state
\* resets, a new AbortController, and - inside uploadImagesChunked - its
\* first upload request.  The behaviours followed are those in which that
\* request is not answered yet, so the new run takes no further step; the
\* run started first goes on as before.
HandleExtractAgain ==
    /\ runPc \notin {"idle", "unused", "render", "callbacks"}
    /\ ~loading
    /\ laterRuns < MaxLaterRuns
    /\ IF Len(filesState) = 0
          THEN /\ uiError' = UiError("", "Please upload at least one image", 0)
               /\ UNCHANGED <<loading, uiStatus, uiResult, progress, abortController,
                              laterRuns>>
       ELSE IF NoFieldDefined(schemaFields)
          THEN /\ uiError' = UiError("", "Please define at least one field to extract", 0)
               /\ UNCHANGED <<loading, uiStatus, uiResult, progress, abortController,
                              laterRuns>>
       ELSE /\ uiError' = NoUiError
            /\ loading' = TRUE
            /\ uiResult' = NoResult
            /\ abortController' = "later controller"
            /\ progress' = LastWrite(<<NoProgress,
                                       Progress(0, Len(filesState), 0, "upload")>>)
            /\ uiStatus' = Status("Uploading a images...", Len(filesState), 0)
            /\ laterRuns' = laterRuns + 1
    /\ UNCHANGED <<upVars, pollVars, runVars, cbVars, fnVars, setupVars, filesState,
                   schemaFields, processingMode, outputFolder, earlierRun>>

\* ---- a run started while an earlier, terminated run is still alive ----
\* The state handleTerminate leaves (561-569) when it is pressed during a
\* run's upload: loading false, status "Operation terminated", progress
\* null; the terminated run still awaits its request (its abort signal
\* reaches nothing).  The run followed is the one started next.
AfterTerminateInit ==
    /\ ExtractInputs
    /\ Len(filesState) > 0
    /\ ~NoFieldDefined(schemaFields)
    /\ loading = FALSE
    /\ uiStatus = Status("Operation terminated", 0, 0)
    /\ uiResult = NoResult
    /\ uiError = NoUiError
    /\ progress = NoProgress
    /\ abortController = Null
    /\ RunNotStarted
    /\ earlierRun = TRUE
    /\ laterRuns = 0

\* The request the earlier run awaits fails: its await throws and its
\* catch and finally blocks run (528-557) on the state the runs share.
EarlierRunFails ==
    /\ earlierRun
    /\ earlierRun' = FALSE
    /\ CatchWrites(Caught("TypeError", "Failed to fetch", 0, <<>>))
    /\ UNCHANGED <<upVars, pollVars, runVars, cbVars, fnVars, setupVars, laterRuns,
                   filesState, schemaFields, processingMode, outputFolder, uiResult>>

\* ===================================================================
\*  runFirstTimeSetup (setup.js)
\* ===================================================================

\* REQUIREMENTS.length (setup.js, 116-121)
RequirementsLength == 13

\* preExtractedPaths.length (226-231) and possibleZipPaths.length (277-283)
PreExtractedPathsLength == 4
PossibleZipPathsLength == 5

\* How the promise of runFirstTimeSetup is settled: not yet, resolved with
\* true, resolved with undefined (the function body ends without a return
\* statement), or rejected with an Error.
NotReturned == [kind |-> "pending", message |-> ""]
ReturnsTrue == [kind |-> "true", message |-> ""]
ReturnsUndefined == [kind |-> "undefined", message |-> ""]
Throws(message) == [kind |-> "throw", message |-> message]

\* The first entry of a list of candidate paths that exists, 0 when none
\* does (the for loops of 235-247 and 286-297; a check that throws counts
\* as absent).
FirstExisting(existing) ==
    IF existing = {} THEN 0
    ELSE CHOOSE k \in existing : \A j \in existing : k <= j

\* What stays as it is while setup runs.
SetupFrame ==
    UNCHANGED <<upVars, pollVars, uiVars, runVars, cbVars, otherRuns, fnVars>>

SetupInit ==
    /\ setupPc = "start"
    /\ preExtractedPath = 0
    /\ zipPath = 0
    /\ installed = 0
    /\ currentProgress = 0
    /\ progressInterval = FALSE
    /\ setupProgress = 0
    /\ setupStatus = ""
    /\ markerWritten = FALSE
    /\ setupReturn = NotReturned

\* catch (e) { console.error(...); throw e; } (457-460)
SetupThrows(message) ==
    /\ setupReturn' = Throws(message)
    /\ setupPc' = "done"

\* 203-217: appDataDir, join, resourceDir, onProgress(5), then mkdir.
SetupBegin ==
    /\ setupPc = "start"
    /\ \E pathsResolve \in BOOLEAN :
          IF pathsResolve
             THEN /\ setupProgress' = 5
                  /\ setupStatus' = "Initializing setup..."
                  /\ setupPc' = "await_mkdir"
                  /\ UNCHANGED setupReturn
             ELSE /\ SetupThrows("path api")
                  /\ UNCHANGED <<setupProgress, setupStatus>>
    /\ UNCHANGED <<preExtractedPath, zipPath, installed, currentProgress,
                   progressInterval, markerWritten>>
    /\ SetupFrame

\* 216-319: mkdir settles (its failure is swallowed), onProgress(10), the
\* two searches, and the start of whichever of the three ways is taken.
SetupLocate ==
    /\ setupPc = "await_mkdir"
    /\ \E folders \in SUBSET (1..PreExtractedPathsLength),
          zips \in SUBSET (1..PossibleZipPathsLength) :
          LET found == FirstExisting(folders)
              zip == IF found # 0 THEN 0
                     ELSE FirstExisting(zips)
          IN /\ (found # 0 => zips = {})
             /\ preExtractedPath' = found
             /\ zipPath' = zip
             /\ setupProgress' = 15
             /\ IF found # 0
                   THEN /\ setupStatus' = "Copying pre-installed Python environment..."
                        /\ setupPc' = "await_copy"
                        /\ UNCHANGED <<currentProgress, progressInterval>>
                   ELSE IF zip = 0
                   THEN /\ setupStatus' = "Downloading Python from python.org (this requires internet)..."
                        /\ setupPc' = "download"
                        /\ UNCHANGED <<currentProgress, progressInterval>>
                   ELSE /\ setupStatus' = "Preparing to extract (~300MB, this takes 2-5 minutes)..."
                        /\ currentProgress' = 20
                        /\ progressInterval' = TRUE
                        /\ setupPc' = "await_extract"
    /\ UNCHANGED <<installed, markerWritten, setupReturn>>
    /\ SetupFrame

\* 264-271: the Copy-Item command settles.  After onProgress(85) the
\* function body ends: nothing is returned.
SetupCopySettled ==
    /\ setupPc = "await_copy"
    /\ \E code \in {0, 1} :
          IF code # 0
             THEN /\ SetupThrows("Failed to copy Python environment")
                  /\ UNCHANGED setupProgress
             ELSE /\ setupProgress' = 85
                  /\ setupReturn' = ReturnsUndefined
                  /\ setupPc' = "done"
    /\ UNCHANGED <<preExtractedPath, zipPath, installed, currentProgress,
                   progressInterval, setupStatus, markerWritten>>
    /\ SetupFrame

\* downloadAndInstallPython returned false, or threw (305-315).
DownloadFailed ==
    SetupThrows("Python environment not found and download failed.")

\* 124-137: onProgress(20), then the download command.
DownloadBegin ==
    /\ setupPc = "download"
    /\ setupProgress' = 20
    /\ setupStatus' = "Downloading Python 3.10 (~8MB)..."
    /\ setupPc' = "await_download"
    /\ UNCHANGED <<preExtractedPath, zipPath, installed, currentProgress,
                   progressInterval, markerWritten, setupReturn>>
    /\ SetupFrame

\* 137-147: the download settles; on code 0 onProgress(40) and the
\* extraction command.
DownloadFetched ==
    /\ setupPc = "await_download"
    /\ \E code \in {0, 1} :
          IF code # 0
             THEN /\ DownloadFailed
                  /\ UNCHANGED <<setupProgress, setupStatus>>
             ELSE /\ setupProgress' = 40
                  /\ setupStatus' = "Extracting Python..."
                  /\ setupPc' = "await_download_extract"
                  /\ UNCHANGED setupReturn
    /\ UNCHANGED <<preExtractedPath, zipPath, installed, currentProgress,
                   progressInterval, markerWritten>>
    /\ SetupFrame

\* 147-159: the extraction settles; on code 0 onProgress(50) and the
\* write of python310._pth.
DownloadExtracted ==
    /\ setupPc = "await_download_extract"
    /\ \E code \in {0, 1} :
          IF code # 0
             THEN /\ DownloadFailed
                  /\ UNCHANGED <<setupProgress, setupStatus>>
             ELSE /\ setupProgress' = 50
                  /\ setupStatus' = "Configuring Python for pip..."
                  /\ setupPc' = "await_pth"
                  /\ UNCHANGED setupReturn
    /\ UNCHANGED <<preExtractedPath, zipPath, installed, currentProgress,
                   progressInterval, markerWritten>>
    /\ SetupFrame

\* 156-174: the write settles (a rejection is caught at 188 and makes the
\* function return false); onProgress(55), then get-pip is fetched and run.
DownloadConfigured ==
    /\ setupPc = "await_pth"
    /\ \E written \in BOOLEAN :
          IF ~written
             THEN /\ DownloadFailed
                  /\ UNCHANGED <<setupProgress, setupStatus>>
             ELSE /\ setupProgress' = 55
                  /\ setupStatus' = "Installing pip..."
                  /\ setupPc' = "await_pip"
                  /\ UNCHANGED setupReturn
    /\ UNCHANGED <<preExtractedPath, zipPath, installed, currentProgress,
                   progressInterval, markerWritten>>
    /\ SetupFrame

\* 171-183: the two pip commands settle (their exit codes are not read; a
\* command that cannot be run throws); onProgress(60) and the first
\* package.
DownloadPipInstalled ==
    /\ setupPc = "await_pip"
    /\ \E ran \in BOOLEAN :
          IF ~ran
             THEN /\ DownloadFailed
                  /\ UNCHANGED <<setupProgress, setupStatus, installed>>
             ELSE /\ setupProgress' = 60
                  /\ setupStatus' = "Installing package"
                  /\ installed' = 0
                  /\ setupPc' = "await_install"
                  /\ UNCHANGED setupReturn
    /\ UNCHANGED <<preExtractedPath, zipPath, currentProgress,
                   progressInterval, markerWritten>>
    /\ SetupFrame

\* 179-187 and 306-311: pip install of package i settles (its exit code is
\* not read, and the package's name in the status text is left out);
\* onProgress(60 + floor((i + 1) / 13 * 25)); after the last
\* package downloadAndInstallPython returns true, runFirstTimeSetup calls
\* onProgress(85) and its body ends: nothing is returned.
DownloadPackageInstalled ==
    /\ setupPc = "await_install"
    /\ \E ran \in BOOLEAN :
          IF ~ran
             THEN /\ DownloadFailed
                  /\ UNCHANGED <<setupProgress, installed>>
             ELSE /\ installed' = installed + 1
                  /\ IF installed + 1 < RequirementsLength
                        THEN /\ setupProgress' =
                                   60 + (((installed + 1) * 25) \div RequirementsLength)
                             /\ UNCHANGED <<setupPc, setupReturn>>
                        ELSE /\ setupProgress' = 85
                             /\ setupReturn' = ReturnsUndefined
                             /\ setupPc' = "done"
    /\ UNCHANGED <<preExtractedPath, zipPath, currentProgress, progressInterval,
                   setupStatus, markerWritten>>
    /\ SetupFrame

\* 323-340: the setInterval callback, every 3 seconds while installed.
\* At 85 it changes nothing.
ProgressIntervalFires ==
    /\ progressInterval
    /\ currentProgress < 85
    /\ currentProgress' = currentProgress + 1
    /\ setupProgress' = currentProgress + 1
    /\ setupStatus' = IF currentProgress + 1 < 40
                         THEN "Extracting Python environment... (this may take a few minutes)"
                      ELSE IF currentProgress + 1 < 60
                         THEN "Extracting packages and dependencies..."
                      ELSE IF currentProgress + 1 < 75
                         THEN "Installing machine learning libraries..."
                      ELSE "Almost done, finalizing extraction..."
    /\ UNCHANGED <<setupPc, preExtractedPath, zipPath, installed, progressInterval,
                   markerWritten, setupReturn>>
    /\ SetupFrame

\* 352-380: Expand-Archive settles, the interval is cleared; a non-zero
\* exit code throws one of three messages chosen by stderr, otherwise
\* onProgress(88) and the check that python.exe exists.
SetupExtractSettled ==
    /\ setupPc = "await_extract"
    /\ progressInterval' = FALSE
    /\ \E code \in {0, 1},
          message \in {"Permission denied. Please run as administrator or check antivirus settings.",
                       "Not enough disk space. Please free up at least 1GB and try again.",
                       "Failed to extract Python environment"} :
          IF code # 0
             THEN /\ SetupThrows(message)
                  /\ UNCHANGED <<setupProgress, setupStatus>>
             ELSE /\ message = "Failed to extract Python environment"
                  /\ setupProgress' = 88
                  /\ setupStatus' = "Verifying installation..."
                  /\ setupPc' = "await_verify"
                  /\ UNCHANGED setupReturn
    /\ UNCHANGED <<preExtractedPath, zipPath, installed, currentProgress, markerWritten>>
    /\ SetupFrame

\* 380-393: exists(python.exe) settles; onProgress(90) and the OCR models.
SetupVerified ==
    /\ setupPc = "await_verify"
    /\ \E pythonExists \in BOOLEAN :
          IF ~pythonExists
             THEN /\ SetupThrows("Python environment extraction incomplete.")
                  /\ UNCHANGED <<setupProgress, setupStatus>>
             ELSE /\ setupProgress' = 90
                  /\ setupStatus' = "Installing OCR models (prevents slow downloads later)..."
                  /\ setupPc' = "await_models"
                  /\ UNCHANGED setupReturn
    /\ UNCHANGED <<preExtractedPath, zipPath, installed, currentProgress,
                   progressInterval, markerWritten>>
    /\ SetupFrame

\* 392-448: the model copy ends one way or another (none of its failures
\* is fatal); onProgress(95) and the write of the marker.
SetupModelsSettled ==
    /\ setupPc = "await_models"
    /\ setupProgress' = 95
    /\ setupStatus' = "Creating configuration..."
    /\ setupPc' = "await_marker"
    /\ UNCHANGED <<preExtractedPath, zipPath, installed, currentProgress,
                   progressInterval, markerWritten, setupReturn>>
    /\ SetupFrame

\* 445-454: the marker write settles; onProgress(100); return true.
SetupMarkerSettled ==
    /\ setupPc = "await_marker"
    /\ \E written \in BOOLEAN :
          IF ~written
             THEN /\ SetupThrows("write_file_bytes")
                  /\ UNCHANGED <<setupProgress, setupStatus, markerWritten>>
             ELSE /\ markerWritten' = TRUE
                  /\ setupProgress' = 100
                  /\ setupStatus' = "Setup complete!"
                  /\ setupReturn' = ReturnsTrue
                  /\ setupPc' = "done"
    /\ UNCHANGED <<preExtractedPath, zipPath, installed, currentProgress,
                   progressInterval>>
    /\ SetupFrame

SetupNext ==
    \/ SetupBegin
    \/ SetupLocate
    \/ SetupCopySettled
    \/ DownloadBegin
    \/ DownloadFetched
    \/ DownloadExtracted
    \/ DownloadConfigured
    \/ DownloadPipInstalled
    \/ DownloadPackageInstalled
    \/ ProgressIntervalFires
    \/ SetupExtractSettled
    \/ SetupVerified
    \/ SetupModelsSettled
    \/ SetupMarkerSettled

\* ---- what App computes from files.length, on its own ----
\* The component is rendered with some number of selected images; adding or
\* removing an image renders it again, and every render evaluates
\* getWarningLevel(files.length) (572).  shouldUseAsync is called with
\* files.length (450); its result is a local constant of the caller.
ProcessingModes == {"auto", "sync", "async"}

RenderInit ==
    /\ filesLength \in 0..MaxImages
    /\ warningLevel = getWarningLevel(filesLength)
    /\ asyncChoice = "none"
    /\ processingMode \in ProcessingModes

AddImage ==
    /\ runPc = "render"
    /\ filesLength < MaxImages
    /\ filesLength' = filesLength + 1
    /\ warningLevel' = getWarningLevel(filesLength + 1)
    /\ asyncChoice' = "none"
    /\ UNCHANGED <<upVars, pollVars, uiVars, runVars, cbVars, otherRuns, setupVars>>

RemoveImage ==
    /\ runPc = "render"
    /\ filesLength > 0
    /\ filesLength' = filesLength - 1
    /\ warningLevel' = getWarningLevel(filesLength - 1)
    /\ asyncChoice' = "none"
    /\ UNCHANGED <<upVars, pollVars, uiVars, runVars, cbVars, otherRuns, setupVars>>

CallShouldUseAsync ==
    /\ runPc = "render"
    /\ asyncChoice' = IF shouldUseAsync(filesLength) THEN "true" ELSE "false"
    /\ UNCHANGED <<upVars, pollVars, uiVars, runVars, cbVars, otherRuns, setupVars,
                   filesLength, warningLevel>>

RenderNext ==
    \/ AddImage
    \/ RemoveImage
    \/ CallShouldUseAsync

\* ---- the two progress callbacks on their own ----
\* The callbacks are closures of handleExtract; here they are invoked with
\* every non-decreasing sequence of arguments: uploaded counts 0..total for
\* the upload callback, then job percentages 0..100 for the poll callback.
CallbacksInit ==
    /\ cbTotal \in 1..MaxFiles
    /\ cbUploaded = 0
    /\ cbPercentage = 0
    /\ progress = Progress(0, cbTotal, 0, "upload")
    /\ filesState = <<>>
    /\ schemaFields = <<>>
    /\ processingMode = "auto"
    /\ outputFolder = FALSE
    /\ loading = TRUE
    /\ uiStatus = Status("", 0, 0)
    /\ uiResult = NoResult
    /\ uiError = NoUiError
    /\ abortController = "controller"
    /\ runPc = "callbacks"
    /\ runEnd = "none"
    /\ useAsync = TRUE
    /\ aborted = FALSE
    /\ uploadRes = NoBody
    /\ jobRes = Null
    /\ extractCalls = <<>>
    /\ extractInflight = 0
    /\ extractResponses = <<>>
    /\ saveCalls = 0

\* (uploaded, total) => { pct = ...; setProgress(...); setStatus(...) }  (457-461)
UploadCallback ==
    /\ runPc = "callbacks"
    /\ progress.stage = "upload"
    /\ \E uploaded \in cbUploaded..cbTotal :
         /\ cbUploaded' = uploaded
         /\ progress' = UploadCallbackProgress(uploaded, cbTotal)
         /\ uiStatus' = UploadCallbackStatus(uploaded, cbTotal)
    /\ UNCHANGED <<upVars, pollVars, runVars, otherVars, uiQuiet, cbTotal, cbPercentage>>

\* The first statement of the poll callback (479-486): setProgress with the
\* composed percentage.
ExtractionCallback ==
    /\ runPc = "callbacks"
    /\ cbUploaded = cbTotal
    /\ \E percentage \in cbPercentage..100 :
         /\ cbPercentage' = percentage
         /\ progress' = ExtractionProgress(JobStatus(S_processing, Null, percentage, 100))
    /\ UNCHANGED <<upVars, pollVars, runVars, otherVars, uiQuiet, uiStatus, cbUploaded, cbTotal>>

CallbacksNext ==
    \/ UploadCallback
    \/ ExtractionCallback

ExtractNext ==
    \/ HandleExtract
    \/ ExtractUploadSettled
    \/ ExtractEnqueueSettled
    \/ ExtractPollSettled
    \/ ExtractSyncSettled
    \/ ExtractAutoSaveSettled
    \/ HandleTerminate
    \/ UploadSmallStart
    \/ UploadSmallFetchSettled
    \/ UploadSmallJsonSettled
    \/ UploadChunkedStart
    \/ UploadSendChunk
    \/ UploadChunkedReturn
    \/ UploadFetchSettled
    \/ UploadJsonSettled
    \/ PollStart
    \/ PollStatusSettled
    \/ PollTimerFires

\* ===================================================================
\*  Specifications
\* ===================================================================

UploadUnused ==
    /\ files = <<>>
    /\ upOnProgress = FALSE
    /\ upPc = "unused"
    /\ i = 0
    /\ batchId = Null
    /\ uploadedCount = 0
    /\ upCalls = <<>>
    /\ upInflight = {}
    /\ upResponses = <<>>
    /\ upProgress = <<>>
    /\ upResult = [kind |-> "none", value |-> NoBody, error |-> NoError]

PollUnused ==
    /\ pollOnProgress = FALSE
    /\ pollPc = "unused"
    /\ pollRequests = 0
    /\ pollInflight = 0
    /\ pollTimers = <<>>
    /\ pollFetched = <<>>
    /\ pollProgress = <<>>
    /\ pollPromise = Pending
    /\ pollJobId = Null
    /\ pollHttp = <<>>
    /\ pollEvents = <<>>

ExtractUnusedButMode(pc) ==
    /\ filesState = <<>>
    /\ schemaFields = <<>>
    /\ outputFolder = FALSE
    /\ loading = FALSE
    /\ uiStatus = Status("", 0, 0)
    /\ uiResult = NoResult
    /\ uiError = NoUiError
    /\ progress = NoProgress
    /\ abortController = Null
    /\ runPc = pc
    /\ runEnd = "none"
    /\ useAsync = FALSE
    /\ aborted = FALSE
    /\ uploadRes = NoBody
    /\ jobRes = Null
    /\ extractCalls = <<>>
    /\ extractInflight = 0
    /\ extractResponses = <<>>
    /\ saveCalls = 0

ExtractUnused ==
    /\ filesState = <<>>
    /\ schemaFields = <<>>
    /\ processingMode = "auto"
    /\ outputFolder = FALSE
    /\ loading = FALSE
    /\ uiStatus = Status("", 0, 0)
    /\ uiResult = NoResult
    /\ uiError = NoUiError
    /\ progress = NoProgress
    /\ abortController = Null
    /\ runPc = "unused"
    /\ runEnd = "none"
    /\ useAsync = FALSE
    /\ aborted = FALSE
    /\ uploadRes = NoBody
    /\ jobRes = Null
    /\ extractCalls = <<>>
    /\ extractInflight = 0
    /\ extractResponses = <<>>
    /\ saveCalls = 0

CallbacksUnused ==
    /\ cbUploaded = 0
    /\ cbTotal = 0
    /\ cbPercentage = 0

RenderUnused ==
    /\ filesLength = 0
    /\ warningLevel = "none"
    /\ asyncChoice = "none"

SetupUnused ==
    /\ setupPc = "unused"
    /\ preExtractedPath = 0
    /\ zipPath = 0
    /\ installed = 0
    /\ currentProgress = 0
    /\ progressInterval = FALSE
    /\ setupProgress = 0
    /\ setupStatus = ""
    /\ markerWritten = FALSE
    /\ setupReturn = NotReturned

OthersUnused == laterRuns = 0 /\ earlierRun = FALSE /\ RenderUnused /\ SetupUnused

UploadSpecInit == UploadInit /\ PollUnused /\ ExtractUnused /\ CallbacksUnused /\ OthersUnused

\* One call of uploadImagesChunked against an arbitrary server.
SpecUpload == UploadSpecInit /\ [][UploadNext]_vars

PollSpecInit == PollInit /\ UploadUnused /\ ExtractUnused /\ CallbacksUnused /\ OthersUnused

\* One call of pollJobStatus against an arbitrary server.
SpecPoll == PollSpecInit /\ [][PollNext]_vars

\* The same, where every request is eventually answered and every timer
\* eventually fires (the event loop runs each pending callback).
SpecPollFair ==
    /\ PollSpecInit
    /\ [][PollNext]_vars
    /\ WF_vars(PollStart)
    /\ WF_vars(PollStatusSettled)
    /\ WF_vars(PollTimerFires)

ExtractSpecInit == ExtractInit /\ UploadUnused /\ PollUnused /\ CallbacksUnused /\ OthersUnused

\* One run of handleExtract, with the user free to press Terminate, against
\* an arbitrary server.
SpecExtract == ExtractSpecInit /\ [][ExtractNext]_vars

RestartNext ==
    \/ HandleExtract
    \/ HandleExtractAgain
    \/ ExtractUploadSettled
    \/ ExtractEnqueueSettled
    \/ ExtractPollSettled
    \/ ExtractSyncSettled
    \/ ExtractAutoSaveSettled
    \/ HandleTerminate
    \/ UploadSmallStart
    \/ UploadSmallFetchSettled
    \/ UploadSmallJsonSettled
    \/ UploadChunkedStart
    \/ UploadSendChunk
    \/ UploadChunkedReturn
    \/ UploadFetchSettled
    \/ UploadJsonSettled
    \/ PollStart
    \/ PollStatusSettled
    \/ PollTimerFires

\* One run of handleExtract followed to its end, with the user free to
\* press Terminate and to press Extract again.
SpecRestart == ExtractSpecInit /\ [][RestartNext]_vars

AfterTerminateNext ==
    \/ HandleExtract
    \/ EarlierRunFails
    \/ ExtractUploadSettled
    \/ ExtractEnqueueSettled
    \/ ExtractPollSettled
    \/ ExtractSyncSettled
    \/ ExtractAutoSaveSettled
    \/ HandleTerminate
    \/ UploadSmallStart
    \/ UploadSmallFetchSettled
    \/ UploadSmallJsonSettled
    \/ UploadChunkedStart
    \/ UploadSendChunk
    \/ UploadChunkedReturn
    \/ UploadFetchSettled
    \/ UploadJsonSettled
    \/ PollStart
    \/ PollStatusSettled
    \/ PollTimerFires

AfterTerminateSpecInit ==
    /\ AfterTerminateInit
    /\ UploadUnused /\ PollUnused /\ CallbacksUnused /\ RenderUnused /\ SetupUnused

\* One run of handleExtract started after the user terminated an earlier
\* run whose request is still outstanding.
SpecAfterTerminate == AfterTerminateSpecInit /\ [][AfterTerminateNext]_vars

\* What the run's awaits wait for comes back: every request is answered
\* (or fails), every timer fires, every promise is settled.  The user's
\* buttons (HandleExtract, HandleTerminate) carry no obligation.
AwaitsReturn ==
    /\ WF_vars(ExtractUploadSettled)
    /\ WF_vars(ExtractEnqueueSettled)
    /\ WF_vars(ExtractPollSettled)
    /\ WF_vars(ExtractSyncSettled)
    /\ WF_vars(ExtractAutoSaveSettled)
    /\ WF_vars(UploadSmallStart)
    /\ WF_vars(UploadSmallFetchSettled)
    /\ WF_vars(UploadSmallJsonSettled)
    /\ WF_vars(UploadChunkedStart)
    /\ WF_vars(UploadSendChunk)
    /\ WF_vars(UploadChunkedReturn)
    /\ WF_vars(UploadFetchSettled)
    /\ WF_vars(UploadJsonSettled)
    /\ WF_vars(PollStart)
    /\ WF_vars(PollStatusSettled)
    /\ WF_vars(PollTimerFires)

\* SpecExtract when every request eventually returns.
SpecExtractFair == ExtractSpecInit /\ [][ExtractNext]_vars /\ AwaitsReturn

\* SpecAfterTerminate when every request eventually returns, the earlier
\* run's included.
SpecAfterTerminateFair ==
    /\ AfterTerminateSpecInit
    /\ [][AfterTerminateNext]_vars
    /\ AwaitsReturn
    /\ WF_vars(EarlierRunFails)

\* One call of runFirstTimeSetup, against any file system and any outcome
\* of the commands it runs.
SetupSpecInit ==
    /\ SetupInit
    /\ UploadUnused /\ PollUnused /\ ExtractUnused /\ CallbacksUnused /\ RenderUnused
    /\ laterRuns = 0
    /\ earlierRun = FALSE

SpecSetup == SetupSpecInit /\ [][SetupNext]_vars

CallbacksSpecInit == CallbacksInit /\ UploadUnused /\ PollUnused /\ OthersUnused

RenderSpecInit ==
    /\ RenderInit
    /\ ExtractUnusedButMode("render")
    /\ UploadUnused /\ PollUnused /\ CallbacksUnused /\ SetupUnused
    /\ laterRuns = 0
    /\ earlierRun = FALSE

\* Renders of App with 0..MaxImages selected images, in each processing mode.
SpecRender == RenderSpecInit /\ [][RenderNext]_vars

\* The progress callbacks of handleExtract under every non-decreasing
\* sequence of arguments.
SpecCallbacks == CallbacksSpecInit /\ [][CallbacksNext]_vars

\* ===================================================================
\*  Properties of the uploader
\* ===================================================================

CeilDiv(n, c) == (n + c - 1) \div c

UploadReturned == upPc = "done" /\ upResult.kind = "return"
IsChunked == totalFiles > CHUNK_SIZE

\* The files of the first k calls, concatenated in call order.
RECURSIVE FilesSent(_)
FilesSent(k) == IF k = 0 THEN <<>> ELSE FilesSent(k - 1) \o upCalls[k].files

\* Settlements that mean "the request failed".
FailedOutcomes == {"http_error", "network_error", "bad_json"}

\* C1: when every call succeeds, uploadImagesChunked issues exactly one
\* POST /upload/images for n <= CHUNK_SIZE files and exactly ceil(n/CHUNK_SIZE)
\* for n > CHUNK_SIZE files (and never more than that while running).
UploadCallCount ==
    LET expected == IF totalFiles <= CHUNK_SIZE THEN 1
                                                ELSE CeilDiv(totalFiles, CHUNK_SIZE)
    IN /\ Len(upCalls) <= expected
       /\ UploadReturned => Len(upCalls) = expected

UploadCallCountWitness ==
    /\ UploadReturned
    /\ totalFiles = 250
    /\ Len(upCalls) = 3

\* C2: in a chunked upload the first call carries no batch_id, every later
\* call carries the batch_id of the response to the first call, and the value
\* returned is {batch_id: that id, file_count: n}.
BatchIdentity ==
    IsChunked =>
      /\ \A k \in 1..Len(upCalls) :
           IF k = 1 THEN upCalls[k].batch_id = Null
                    ELSE /\ upResponses[1].outcome = "ok"
                         /\ upCalls[k].batch_id = upResponses[1].body.batch_id
      /\ UploadReturned =>
           upResult.value = [batch_id |-> upResponses[1].body.batch_id,
                             file_count |-> totalFiles]

BatchIdentityWitness ==
    /\ UploadReturned
    /\ IsChunked
    /\ Len(upCalls) = 3
    /\ upResponses[2].body.batch_id # upResponses[1].body.batch_id
    /\ upCalls[3].batch_id = upResponses[1].body.batch_id

\* C3: in a chunked upload the k-th call carries exactly
\* files[(k-1)c .. min(kc, n)-1]; every chunk but possibly the last has c
\* files; the chunks concatenated in call order are the input sequence.
ChunkContents ==
    IsChunked =>
      /\ \A k \in 1..Len(upCalls) :
           LET lo == (k - 1) * CHUNK_SIZE
               hi == Min(k * CHUNK_SIZE, totalFiles)
           IN /\ upCalls[k].files = [j \in 1..(hi - lo) |-> files[lo + j]]
              /\ k < CeilDiv(totalFiles, CHUNK_SIZE) => Len(upCalls[k].files) = CHUNK_SIZE
      /\ UploadReturned => FilesSent(Len(upCalls)) = files

ChunkContentsWitness ==
    /\ UploadReturned
    /\ totalFiles = 250
    /\ Len(upCalls[3].files) = 50
    /\ upCalls[3].files[1] = files[201]

\* C4: at most one upload request is in flight at any time, and a request
\* is sent only when every earlier request has been answered and its body
\* parsed.
SequentialUpload ==
    /\ [](Cardinality(upInflight) <= 1)
    /\ [][Len(upCalls') > Len(upCalls) =>
            \A k \in 1..Len(upCalls) :
               /\ k <= Len(upResponses)
               /\ upResponses[k].outcome = "ok"]_vars

SequentialUploadWitness ==
    /\ Len(upCalls) = 3
    /\ Cardinality(upInflight) = 1
    /\ Len(upResponses) = 2

\* C5: for n > CHUNK_SIZE, onProgress is invoked once per chunk, after that
\* chunk's response, with (cumulative uploaded count, n); the counts are
\* strictly increasing and, when every chunk succeeded, the last is (n, n).
UploadProgressPerChunk ==
    (IsChunked /\ upOnProgress) =>
      /\ Len(upProgress) = Cardinality({k \in 1..Len(upResponses) :
                                           upResponses[k].outcome = "ok"})
      /\ \A k \in 1..Len(upProgress) :
           /\ upProgress[k] = <<Len(FilesSent(k)), totalFiles>>
           /\ k > 1 => upProgress[k][1] > upProgress[k - 1][1]
      /\ UploadReturned =>
           /\ Len(upProgress) = CeilDiv(totalFiles, CHUNK_SIZE)
           /\ upProgress[Len(upProgress)] = <<totalFiles, totalFiles>>

UploadProgressPerChunkWitness ==
    /\ UploadReturned
    /\ upOnProgress
    /\ upProgress = << <<100, 250>>, <<200, 250>>, <<250, 250>> >>

\* C6: also for n <= CHUNK_SIZE (and at least one file) a successful upload
\* invokes onProgress with (n, n) before returning.
SmallBatchReportsProgress ==
    (UploadReturned /\ upOnProgress /\ ~IsChunked /\ totalFiles >= 1) =>
        upProgress = << <<totalFiles, totalFiles>> >>

\* C7 as claimed: when the upload of chunk k fails (non-2xx response or
\* transport error) the call throws an error naming chunk k, no later chunk
\* is sent, chunk k is not retried and onProgress is not invoked for chunk k
\* or later.
FailureNamesChunk ==
    \A k \in 1..Len(upResponses) :
       (IsChunked /\ upResponses[k].outcome \in {"http_error", "network_error"}) =>
          /\ upResult.kind = "throw"
          /\ upResult.error.text = "Failed to upload chunk "
          /\ upResult.error.arg = k
          /\ Len(upCalls) = k
          /\ Len(upProgress) <= k - 1

\* C7 as amended: a failing chunk k (non-2xx, transport error or unparsable
\* body) ends the call at once by a throw: no later request, no retry, no
\* onProgress for chunk k or later.  The error names chunk k only for a
\* non-2xx response in the chunked path; a transport error surfaces as
\* fetch's own rejection, an unparsable body as json()'s rejection, and the
\* single-call path throws "Failed to upload images".
UploadFailureAborts ==
    \A k \in 1..Len(upResponses) :
       upResponses[k].outcome \in FailedOutcomes =>
          /\ upPc = "done"
          /\ upResult.kind = "throw"
          /\ Len(upCalls) = k
          /\ Len(upResponses) = k
          /\ upInflight = {}
          /\ Len(upProgress) = IF IsChunked /\ upOnProgress THEN k - 1 ELSE 0
          /\ upResult.error =
               CASE upResponses[k].outcome = "network_error" -> FetchRejection
                 [] upResponses[k].outcome = "bad_json" -> JsonRejection
                 [] upResponses[k].outcome = "http_error" /\ IsChunked ->
                      [name |-> "Error", text |-> "Failed to upload chunk ", arg |-> k]
                 [] upResponses[k].outcome = "http_error" /\ ~IsChunked ->
                      [name |-> "Error", text |-> "Failed to upload images", arg |-> 0]

UploadFailureAbortsWitness ==
    /\ IsChunked
    /\ upOnProgress
    /\ Len(upResponses) = 2
    /\ upResponses[2].outcome = "http_error"
    /\ upResult.error.arg = 2
    /\ Len(upProgress) = 1

\* ===================================================================
\*  Properties of the poller
\* ===================================================================

LastFetched == pollFetched[Len(pollFetched)]

\* The part of s after its first colon (s itself has one).
AfterFirstColon(s) ==
    LET c1 == CHOOSE k \in 1..Len(s) : s[k] = ":" /\ \A j \in 1..(k - 1) : s[j] # ":"
    IN SubSeq(s, c1 + 1, Len(s))

\* The text between the first colon of s and its next colon (or its end);
\* "unknown" when s has no colon or that text is empty.
KindTag(s) ==
    LET colons == {k \in 1..Len(s) : s[k] = ":"}
    IN IF colons = {} THEN S_unknown
       ELSE LET c1 == CHOOSE k \in colons : \A j \in colons : k <= j
                later == {k \in colons : k > c1}
                end == IF later = {} THEN Len(s)
                       ELSE (CHOOSE k \in later : \A j \in later : k <= j) - 1
                kind == SubSeq(s, c1 + 1, end)
            IN IF kind = <<>> THEN S_unknown ELSE kind

\* C8: pollJobStatus resolves on the first fetched status whose status is
\* "completed", with that status object as the value, and then no request is
\* in flight, no timer is pending and no further request is ever issued; it
\* resolves in no other case.
PollResolvesOnCompleted ==
    /\ \A k \in 1..Len(pollFetched) :
         (pollFetched[k].hasStatus /\ pollFetched[k].status = S_completed) =>
            /\ k = Len(pollFetched)
            /\ pollPromise = Resolved(pollFetched[k])
            /\ pollRequests = k
            /\ pollInflight = 0
            /\ pollTimers = <<>>
    /\ pollPromise.state = "resolved" =>
         /\ pollFetched # <<>>
         /\ LastFetched.hasStatus
         /\ LastFetched.status = S_completed

PollResolvesOnCompletedWitness ==
    /\ Len(pollFetched) = 3
    /\ LastFetched.status = S_completed
    /\ pollPromise.state = "resolved"
    /\ pollPromise.value = LastFetched

\* C9 as claimed: on a status "error:<kind>" the rejection's errorType is
\* the whole substring after the colon, also when <kind> contains a colon.
PollErrorTypeIsSuffix ==
    (/\ pollFetched # <<>>
     /\ pollPromise.state = "rejected"
     /\ LastFetched.hasStatus
     /\ StartsWith(LastFetched.status, S_error \o S_colon)
     /\ AfterFirstColon(LastFetched.status) # <<>>) =>
        pollPromise.error.errorType = AfterFirstColon(LastFetched.status)

\* C9 as amended: pollJobStatus rejects on the first fetched status that
\* starts with "error", and errorType is the text between the first colon and
\* the next colon (or the end of the string), "unknown" when there is no
\* colon or that text is empty.
PollErrorTypeIsKindTag ==
    /\ \A k \in 1..Len(pollFetched) :
         (pollFetched[k].hasStatus /\ StartsWith(pollFetched[k].status, S_error)) =>
            /\ k = Len(pollFetched)
            /\ pollPromise.state = "rejected"
            /\ pollPromise.error.hasErrorType
            /\ pollPromise.error.errorType = KindTag(pollFetched[k].status)
            /\ pollRequests = k
            /\ pollInflight = 0
            /\ pollTimers = <<>>
    /\ pollPromise.error.hasErrorType =>
         /\ pollFetched # <<>>
         /\ StartsWith(LastFetched.status, S_error)

PollErrorTypeIsKindTagWitness ==
    /\ Len(pollFetched) = 2
    /\ pollPromise.state = "rejected"
    /\ LastFetched.status = S_error \o S_colon \o S_rate_limit \o S_colon \o <<"4", "2", "9">>
    /\ pollPromise.error.errorType = S_rate_limit

\* C10: a fetched status "not_found" rejects the promise at once with a
\* "Job not found" error, on the first tick or a later one, and nothing is
\* retried: no request in flight, no timer, no further request.
PollNotFoundRejects ==
    \A k \in 1..Len(pollFetched) :
       (pollFetched[k].hasStatus /\ pollFetched[k].status = S_not_found) =>
          /\ k = Len(pollFetched)
          /\ pollPromise = Rejected(PlainError("Error", "Job not found"))
          /\ pollRequests = k
          /\ pollInflight = 0
          /\ pollTimers = <<>>

PollNotFoundRejectsWitness ==
    /\ Len(pollFetched) = 3
    /\ LastFetched.status = S_not_found
    /\ pollPromise.state = "rejected"
    /\ pollPromise.error.message = "Job not found"

\* A status after which poll() goes on polling.
NonTerminal(st) ==
    ~st.hasStatus \/ (/\ st.status # S_completed
                      /\ st.status # S_not_found
                      /\ ~StartsWith(st.status, S_error))

\* C15: for every status pollJobStatus fetches (non-terminal, completed,
\* error:*, not_found) onProgress is invoked exactly once with that status,
\* in fetch order, and before the promise is settled or the next tick is
\* scheduled for that tick.
PollProgressEveryTick ==
    pollOnProgress =>
      /\ pollProgress = pollFetched
      /\ \A k \in 1..Len(pollEvents) :
           /\ pollEvents[k].op = "progress" =>
                /\ k > 1
                /\ pollEvents[k - 1].op = "request"
           /\ pollEvents[k].op \in {"resolve", "timer"} =>
                /\ k > 1
                /\ pollEvents[k - 1].op = "progress"
           /\ (pollEvents[k].op = "reject" /\ Len(pollFetched) = Len(pollHttp)) =>
                /\ k > 1
                /\ pollEvents[k - 1].op = "progress"

PollProgressEveryTickWitness ==
    /\ pollOnProgress
    /\ Len(pollFetched) = 3
    /\ pollProgress = pollFetched
    /\ pollPromise.state = "rejected"
    /\ StartsWith(LastFetched.status, S_error)

\* C16: a status that is neither completed, error* nor not_found schedules
\* exactly one next tick after intervalMs, and at every moment at most one
\* item is outstanding: one status request in flight or one pending timer.
PollSingleThreaded ==
    /\ pollInflight + Len(pollTimers) <= 1
    /\ (pollFetched # <<>> /\ Len(pollFetched) = Len(pollHttp)
          /\ NonTerminal(LastFetched)) =>
         /\ pollPromise.state = "pending"
         /\ \/ pollPc = "timer" /\ pollTimers = <<DefaultIntervalMs>> /\ pollInflight = 0
            \/ pollPc = "fetching" /\ pollTimers = <<>> /\ pollInflight = 1

PollSingleThreadedWitness ==
    /\ Len(pollFetched) = 2
    /\ NonTerminal(LastFetched)
    /\ pollPc = "timer"
    /\ pollTimers = <<DefaultIntervalMs>>

\* The fixed per-kind default messages of the error table.
DefaultMessageTable(kind) ==
    IF kind = S_rate_limit
       THEN "API rate limit exceeded. Please wait a moment and try again."
    ELSE IF kind = S_insufficient_credits
       THEN "API credits exhausted. Please add credits to your account or switch to a different AI provider in Settings."
    ELSE IF kind = S_invalid_key
       THEN "API key is invalid or expired. Please check your API key in Settings."
    ELSE IF kind = S_no_valid_data
       THEN "No text could be extracted from the images. Please try with clearer images."
    ELSE "An unexpected error occurred during extraction."

\* C17: when pollJobStatus rejects for a status error:<kind> (a kind without
\* a colon), the message is the server's error_message if present, otherwise
\* the default of <kind> for the five known kinds and the default of unknown
\* for every other kind.
PollErrorMessageSelection ==
    (/\ pollFetched # <<>>
     /\ pollPromise.state = "rejected"
     /\ pollPromise.error.hasErrorType
     /\ StartsWith(LastFetched.status, S_error \o S_colon)
     /\ \A k \in 1..Len(AfterFirstColon(LastFetched.status)) :
           AfterFirstColon(LastFetched.status)[k] # ":") =>
        pollPromise.error.message =
            IF LastFetched.error_message # Null
               THEN LastFetched.error_message
               ELSE DefaultMessageTable(AfterFirstColon(LastFetched.status))

\* C18: getJobStatus turns an HTTP 404 into the value {status: "not_found"}
\* without throwing, and throws for every other non-2xx response, so the
\* poller sees two different outcomes ("Job not found" after onProgress, or
\* "Failed to get job status" with no status fetched).
NotFoundIsAValue ==
    \A k \in 1..Len(pollHttp) :
       LET resp == pollHttp[k]
       IN /\ (resp.network /\ resp.code = 404) =>
               /\ Len(pollFetched) = k
               /\ pollFetched[k].hasStatus
               /\ pollFetched[k].status = S_not_found
               /\ pollPromise.state = "rejected"
               /\ pollPromise.error.message = "Job not found"
          /\ (resp.network /\ resp.code # 404 /\ ~(resp.code >= 200 /\ resp.code <= 299)) =>
               /\ k = Len(pollHttp)
               /\ Len(pollFetched) = k - 1
               /\ pollPromise.state = "rejected"
               /\ pollPromise.error.name = "Error"
               /\ pollPromise.error.message = "Failed to get job status"

NotFoundIsAValueWitness ==
    /\ Len(pollHttp) = 2
    /\ pollHttp[2].code = 404
    /\ Len(pollFetched) = 2
    /\ pollFetched[2].status = S_not_found
    /\ pollPromise.error.message = "Job not found"

\* ===================================================================
\*  Properties of handleExtract
\* ===================================================================

\* C14: overall progress composition.  The upload callback stores
\* round(k/n*30) for k of n uploaded files and the poll callback computes
\* 30 + round(p/100*70) for job percentage p (ties rounded up); each value
\* lies in 0..100, the value at k = n and the value at p = 0 are both 30, and
\* along any non-decreasing sequence of arguments the stored percentage
\* never decreases.
ProgressCompositionValue ==
    /\ progress.stage = "upload" =>
          /\ progress.percentage = (2 * 30 * cbUploaded + cbTotal) \div (2 * cbTotal)
          /\ progress.percentage \in 0..100
          /\ (cbUploaded = cbTotal) => progress.percentage = 30
    /\ progress.stage = "extraction" =>
          /\ progress.percentage = 30 + (2 * 70 * cbPercentage + 100) \div (2 * 100)
          /\ progress.percentage \in 0..100
          /\ (cbPercentage = 0) => progress.percentage = 30
NonDecreasing(fetched) ==
    \A a, b \in 1..Len(fetched) :
       (a < b /\ fetched[a].percentage # -1 /\ fetched[b].percentage # -1) =>
          fetched[a].percentage <= fetched[b].percentage

\* C13: during one run of handleExtract, against a job whose percentage
\* never decreases, the percentage stored in the progress state never
\* decreases; and while the run waits on the poller, the progress left by
\* the last handled tick with job percentage p is 30 + round(p/100*70), so
\* at least 30.
ProgressNeverRegresses ==
    /\ [](( /\ runPc = "await_poll"
            /\ progress.shown
            /\ pollFetched # <<>>
            /\ NonDecreasing(pollFetched)
            /\ LastFetched.percentage # -1) =>
              /\ progress.percentage = 30 + (2 * 70 * LastFetched.percentage + 100) \div (2 * 100)
              /\ progress.percentage >= 30)
    /\ [][( /\ runPc \in {"await_upload", "await_enqueue", "await_extract",
                           "await_poll", "await_autosave"}
            /\ progress.shown /\ progress'.shown
            /\ progress.percentage # -1 /\ progress'.percentage # -1
            /\ NonDecreasing(pollFetched')) =>
              progress'.percentage >= progress.percentage]_vars

\* Network operations of the run issued so far: upload calls, extraction
\* calls (sync or async enqueue) and status requests.
NetworkOps == Len(upCalls) + Len(extractCalls) + pollRequests

\* C11: once the user has terminated the run (handleTerminate has aborted
\* its AbortController), the run issues no further network operation: no
\* upload chunk, no sync extract call, no async enqueue call, no poll tick.
CancellationStopsPipeline == [][aborted => NetworkOps' = NetworkOps]_vars

\* C12: a run the user terminated never reaches the pipeline-error branch
\* of handleExtract: it does not end as an error, and no categorized error
\* text is shown for it.
CancellationIsNotAnError ==
    aborted =>
       /\ runEnd # "error"
       /\ uiError.shown => uiError.text = "Operation cancelled by user"

\* A response that is a transport failure: non-2xx or network error.
TransportFailures == {"http_error", "network_error"}
StatusRequestFailed(resp) == ~resp.network \/ ~ResponseOk(resp)
EndedWithError ==
    runPc = "ended" =>
       /\ runEnd = "error"
       /\ uiError.shown
       /\ ~progress.shown
       /\ ~loading
       /\ ~uiResult.shown

\* C19: a failed request (non-2xx or network error) of the run is the
\* last request the run issues: it is not re-issued, no request of a later
\* stage follows, the awaited call has thrown, and when handleExtract has
\* ended an error is shown, progress is null and loading is false.
TransportFailureFatal ==
    /\ \A k \in 1..Len(upResponses) :
          upResponses[k].outcome \in TransportFailures =>
             /\ k = Len(upResponses) /\ Len(upCalls) = k /\ upInflight = {}
             /\ upPc = "done" /\ upResult.kind = "throw"
             /\ extractCalls = <<>> /\ pollRequests = 0 /\ saveCalls = 0
             /\ runPc \in {"await_upload", "ended"}
             /\ EndedWithError
    /\ \A k \in 1..Len(extractResponses) :
          extractResponses[k] \in TransportFailures =>
             /\ k = 1 /\ Len(extractCalls) = 1 /\ extractInflight = 0
             /\ pollRequests = 0 /\ saveCalls = 0
             /\ runPc = "ended"
             /\ EndedWithError
    /\ \A k \in 1..Len(pollHttp) :
          StatusRequestFailed(pollHttp[k]) =>
             /\ k = Len(pollHttp) /\ pollRequests = k /\ pollInflight = 0
             /\ pollTimers = <<>> /\ pollPromise.state = "rejected"
             /\ saveCalls = 0 /\ Len(extractCalls) = 1
             /\ runPc \in {"await_poll", "ended"}
             /\ EndedWithError

TransportFailureFatalWitness ==
    /\ Len(pollHttp) = 2
    /\ pollHttp[2].code = 500
    /\ Len(upCalls) = 3
    /\ runPc = "ended"
    /\ uiError.text = "Failed to get job status"
    /\ aborted

\* C20: pipeline order within one run.  An extraction request exists only
\* after the whole upload has returned, there is at most one, it carries the
\* batch_id the upload returned and goes to the endpoint chosen by
\* shouldUseAsync(files.length) as evaluated when the run started; status
\* requests exist only in async mode, only after the enqueue call has
\* returned, and only for the job_id it returned.
PipelineOrder ==
    /\ runPc \notin {"idle", "ended"} \/ runEnd \in {"success", "error"} =>
          useAsync = ( \/ processingMode = "async"
                       \/ processingMode = "auto" /\ Len(filesState) > SyncMax )
    /\ extractCalls # <<>> =>
          /\ Len(extractCalls) = 1
          /\ upPc = "done" /\ upResult.kind = "return" /\ upInflight = {}
          /\ FilesSent(Len(upCalls)) = filesState
          /\ \A k \in 1..Len(upResponses) : upResponses[k].outcome = "ok"
          /\ extractCalls[1].batch_id = upResult.value.batch_id
          /\ extractCalls[1].batch_id \in BatchIds
          /\ extractCalls[1].endpoint =
                IF useAsync THEN "/extract/batch/async" ELSE "/extract/batch"
    /\ pollRequests > 0 =>
          /\ useAsync
          /\ extractCalls # <<>>
          /\ extractResponses = <<"ok">>
          /\ jobRes \in JobIds
          /\ pollJobId = jobRes
          /\ \A k \in 1..Len(pollEvents) : pollEvents[k].job = jobRes
    /\ ~useAsync => pollRequests = 0

PipelineOrderWitness ==
    /\ runEnd = "success"
    /\ useAsync
    /\ processingMode = "auto"
    /\ Len(upCalls) = 3
    /\ pollRequests = 3
    /\ extractCalls[1].schema = << <<"a">>, <<"b">> >>

\* ===================================================================
\*  Properties of shouldUseAsync and getWarningLevel
\* ===================================================================

\* C21: mode selection.  shouldUseAsync(imageCount) is determined by
\* imageCount and the processing mode: false for every count in mode sync,
\* true for every count in mode async, and in mode auto false iff
\* imageCount <= 0 (the default ceiling), so true for every imageCount >= 1.
ModeSelection ==
    asyncChoice # "none" =>
       /\ processingMode = "sync" => asyncChoice = "false"
       /\ processingMode = "async" => asyncChoice = "true"
       /\ processingMode = "auto" => (asyncChoice = "false" <=> filesLength <= 0)
       /\ (processingMode = "auto" /\ filesLength >= 1) => asyncChoice = "true"

ModeSelectionWitness ==
    /\ processingMode = "sync"
    /\ filesLength = 5000
    /\ asyncChoice = "false"

\* The four levels in ascending order.
LevelRank(level) ==
    CASE level = "ok" -> 0
      [] level = "caution" -> 1
      [] level = "warning" -> 2
      [] level = "danger" -> 3
      [] OTHER -> -1

\* C24: getWarningLevel(n) is ok for n < 500, caution for 500 <= n < 2000,
\* warning for 2000 <= n < 5000 and danger for n >= 5000; it is always one
\* of these four, never goes down when n goes up, and evaluating it changes
\* nothing but the value computed.
WarningLevelValue ==
    /\ warningLevel \in {"ok", "caution", "warning", "danger"}
    /\ warningLevel = "ok" <=> filesLength < 500
    /\ warningLevel = "caution" <=> (500 <= filesLength /\ filesLength < 2000)
    /\ warningLevel = "warning" <=> (2000 <= filesLength /\ filesLength < 5000)
    /\ warningLevel = "danger" <=> filesLength >= 5000
WarningLevelThresholds ==
    /\ []WarningLevelValue
    /\ [][ /\ (filesLength' >= filesLength) =>
               LevelRank(warningLevel') >= LevelRank(warningLevel)
           /\ (filesLength' <= filesLength) =>
               LevelRank(warningLevel') <= LevelRank(warningLevel)
           /\ UNCHANGED <<upVars, pollVars, uiVars, runVars, cbVars, laterRuns,
                          setupVars>> ]_vars

WarningLevelThresholdsWitness ==
    /\ filesLength = 5000
    /\ warningLevel = "danger"
    /\ asyncChoice # "none"

\* Index in schemaFields of the first field whose trimmed name is `key`.
FirstOccurrence(key) ==
    CHOOSE j \in 1..Len(schemaFields) :
       /\ Trim(schemaFields[j]) = key
       /\ \A h \in 1..(j - 1) : Trim(schemaFields[h]) # key

\* C22: handleExtract issues no upload and no extraction request unless
\* some schema field is non-empty after trimming, and the schema of every
\* extraction request has exactly one key per distinct trimmed non-empty
\* field name, in order of first occurrence, none empty or untrimmed.
SchemaSent ==
    /\ (upCalls # <<>> \/ extractCalls # <<>>) =>
          \E j \in 1..Len(schemaFields) : Trim(schemaFields[j]) # <<>>
    /\ \A c \in 1..Len(extractCalls) :
          LET schema == extractCalls[c].schema
          IN /\ schema # <<>>
             /\ \A k \in 1..Len(schema) :
                   /\ schema[k] # <<>>
                   /\ schema[k][1] # " "
                   /\ schema[k][Len(schema[k])] # " "
             /\ \A a, b \in 1..Len(schema) : a # b => schema[a] # schema[b]
             /\ {schema[k] : k \in 1..Len(schema)} =
                   {Trim(schemaFields[j]) : j \in 1..Len(schemaFields)} \ {<<>>}
             /\ \A a, b \in 1..Len(schema) :
                   a < b => FirstOccurrence(schema[a]) < FirstOccurrence(schema[b])

\* ===================================================================
\*  Further properties of the poller
\* ===================================================================

\* Every request so far was answered with a parsable 200 and a
\* non-terminal status.
OnlyNonTerminalSoFar ==
    /\ \A k \in 1..Len(pollHttp) :
          pollHttp[k].network /\ ResponseOk(pollHttp[k]) /\ pollHttp[k].parses
    /\ \A k \in 1..Len(pollFetched) : NonTerminal(pollFetched[k])

\* C23: pollJobStatus has no retry limit.  While every status fetched is
\* non-terminal and no request has failed, the promise stays pending and
\* exactly one next step is outstanding (a request in flight or a timer),
\* however many requests were made; and when requests are answered and
\* timers fire, the promise is eventually settled unless the statuses stay
\* non-terminal for as long as the job is observed (MaxPolls requests).
PollNeverGivesUp ==
    /\ []((pollPc # "idle" /\ OnlyNonTerminalSoFar) =>
            /\ pollPromise.state = "pending"
            /\ pollInflight + Len(pollTimers) = 1
            /\ pollRequests = Len(pollFetched) + pollInflight)
    /\ <>( \/ pollPromise.state # "pending"
           \/ /\ pollRequests = MaxPolls
              /\ Len(pollFetched) = MaxPolls
              /\ OnlyNonTerminalSoFar
              /\ pollTimers # <<>> )

PollNeverGivesUpWitness ==
    /\ pollRequests = MaxPolls
    /\ Len(pollFetched) = MaxPolls
    /\ OnlyNonTerminalSoFar
    /\ pollPromise.state = "pending"
    /\ pollTimers # <<>>

\* C27: pollJobStatus settles at most once and is silent afterwards.  Once
\* the promise is resolved or rejected (error:* status, not_found, or a
\* failure thrown by getJobStatus) it keeps that outcome, no request is in
\* flight, no timer is pending, and no further request is issued and no
\* further onProgress call is made.
PollSilentAfterSettling ==
    /\ [](pollPromise.state # "pending" =>
            /\ pollInflight = 0
            /\ pollTimers = <<>>
            /\ pollPc = "settled")
    /\ [][pollPromise.state # "pending" =>
            /\ pollPromise' = pollPromise
            /\ pollRequests' = pollRequests
            /\ pollProgress' = pollProgress
            /\ pollEvents' = pollEvents]_vars

PollSilentAfterSettlingWitness ==
    /\ pollPromise.state = "rejected"
    /\ pollPromise.error.message = "Failed to get job status"
    /\ Len(pollHttp) = 3
    /\ Len(pollProgress) = 2

\* ===================================================================
\*  Further properties of handleExtract
\* ===================================================================

\* Work of the run started first that is still outstanding: a request
\* without a response, or a pending poll timer.
OutstandingWork ==
    \/ upInflight # {}
    \/ extractInflight > 0
    \/ pollInflight > 0
    \/ pollTimers # <<>>

\* C25: at most one extraction pipeline is in flight: handleExtract is not
\* started again while the previous run still has a request in flight or a
\* poll timer pending, also after the user pressed Terminate on it.
OnePipelineInFlight == [][laterRuns' > laterRuns => ~OutstandingWork]_vars

\* C26: after handleTerminate has run for an extraction, and until a new
\* extraction is started, that run never sets result, never sets progress
\* to a non-null value and never changes status away from the terminated
\* message.
TerminatedRunLeavesUiAlone ==
    aborted =>
       /\ ~uiResult.shown
       /\ ~progress.shown
       /\ uiStatus = Status("Operation terminated", 0, 0)

RunInProgress == runPc \notin {"idle", "ended", "unused", "render", "callbacks"}

\* The job was observed for MaxPolls requests and reported a non-terminal
\* status every time: the hypothesis that it eventually reports completed,
\* error:* or not_found is not met within the bound.
JobStillNonTerminal ==
    /\ runPc = "await_poll"
    /\ pollRequests = MaxPolls
    /\ Len(pollFetched) = MaxPolls
    /\ OnlyNonTerminalSoFar
    /\ pollTimers # <<>>

\* C29: handleExtract always finishes.  If every network request
\* eventually returns and, in async mode, the job eventually reports
\* completed, error:* or not_found, every started run eventually reaches its
\* finally block and loading becomes false; and loading is true all the way
\* from the start of the run until then, unless the user terminates it.
HandleExtractFinishes ==
    /\ []((RunInProgress /\ ~aborted) => loading)
    /\ (RunInProgress ~> ((runPc = "ended" /\ ~loading) \/ JobStillNonTerminal))

\* ===================================================================
\*  Properties of runFirstTimeSetup
\* ===================================================================

\* C30: runFirstTimeSetup returns true whenever setup is successful.  On
\* every path on which it does not throw (copying a pre-extracted folder,
\* extracting python-embed.zip, downloading Python) the promise resolves
\* to true.
SetupReturnsTrue ==
    (setupPc = "done" /\ setupReturn.kind # "throw") => setupReturn = ReturnsTrue

================================================================================
